---- MODULE Spec2Model ----
(***************************************************************************)
(* pgtools: the SQL lexer (tokenize), the pretty-printer (format) and the  *)
(* rule-based analyzer (analyze) of the sql-formatter module.              *)
(*                                                                         *)
(* Text is a sequence of one-character strings.  Indices into a text are   *)
(* 0-based, as in the source: CharAt(s, i) is s[i], Slice(s, a, b) is      *)
(* s.slice(a, b).                                                          *)
(***************************************************************************)
EXTENDS Integers, Sequences, FiniteSets, TLC

\* ------------------------------------------------------------------------
\* Bounds of the model
\* ------------------------------------------------------------------------
MaxFrags == 4
MaxLen == 4
MaxCalls == 3
MaxStmts == 2
MaxParts == 3

\* ------------------------------------------------------------------------
\* Characters and the string primitives the source uses
\* ------------------------------------------------------------------------

\* s[i] for an index outside the string
Undef == "undefined"

\* the regular expression class \s
Whitespace == {" ", "\n", "\t", "\r"}

\* the regular expression class \d
Digits == {"0", "1", "2", "3", "4", "5", "6", "7", "8", "9"}

\* String.prototype.toUpperCase on one lower-case letter
UpMap ==
  [a |-> "A", b |-> "B", c |-> "C", d |-> "D", e |-> "E", f |-> "F",
   g |-> "G", h |-> "H", i |-> "I", j |-> "J", k |-> "K", l |-> "L",
   m |-> "M", n |-> "N", o |-> "O", p |-> "P", q |-> "Q", r |-> "R",
   s |-> "S", t |-> "T", u |-> "U", v |-> "V", w |-> "W", x |-> "X",
   y |-> "Y", z |-> "Z"]

LowerLetters == DOMAIN UpMap

UpperLetters == {UpMap[c] : c \in LowerLetters}

\* the class [a-zA-Z_]
WordStart == LowerLetters \cup UpperLetters \cup {"_"}

\* the class [a-zA-Z0-9_] (also \w)
WordChars == WordStart \cup Digits

\* the class [\d.e+-]
NumberChars == Digits \cup {".", "e", "+", "-"}

Min(a, b) == IF a < b THEN a ELSE b

Max(a, b) == IF a > b THEN a ELSE b

CharAt(s, i) == IF i >= 0 /\ i < Len(s) THEN s[i + 1] ELSE Undef

Slice(s, a, b) == SubSeq(s, a + 1, Min(b, Len(s)))

UpperChar(c) == IF c \in LowerLetters THEN UpMap[c] ELSE c

ToUpperCase(s) == [k \in 1..Len(s) |-> UpperChar(s[k])]

\* s.startsWith(pat, i)
StartsAt(s, pat, i) ==
  /\ i >= 0
  /\ i + Len(pat) <= Len(s)
  /\ \A k \in 1..Len(pat) : s[i + k] = pat[k]

\* s.indexOf(pat, from), -1 when there is no occurrence
IndexOf(s, pat, from) ==
  LET hits == {k \in from..(Len(s) - Len(pat)) : StartsAt(s, pat, k)}
  IN IF hits = {} THEN -1 ELSE CHOOSE k \in hits : \A h \in hits : k <= h

Includes(s, pat) == IndexOf(s, pat, 0) # -1

EndsWith(s, c) == Len(s) > 0 /\ s[Len(s)] = c

RECURSIVE TrimEnd(_)
TrimEnd(s) ==
  IF Len(s) > 0 /\ s[Len(s)] \in Whitespace
  THEN TrimEnd(SubSeq(s, 1, Len(s) - 1))
  ELSE s

RECURSIVE TrimStart(_)
TrimStart(s) ==
  IF Len(s) > 0 /\ s[1] \in Whitespace THEN TrimStart(Tail(s)) ELSE s

Trim(s) == TrimStart(TrimEnd(s))

\* '  '.repeat(n)
RECURSIVE Repeat(_, _)
Repeat(s, n) == IF n <= 0 THEN <<>> ELSE s \o Repeat(s, n - 1)

\* the end of the maximal run of characters of class cls starting at j
RECURSIVE RunEnd(_, _, _)
RunEnd(s, j, cls) ==
  IF j < Len(s) /\ CharAt(s, j) \in cls THEN RunEnd(s, j + 1, cls) ELSE j

\* parseInt on a run of decimal digits
DigitValue(c) == CHOOSE v \in 0..9 : ToString(v) = c

RECURSIVE ParseInt(_)
ParseInt(ds) ==
  IF ds = <<>> THEN 0
  ELSE 10 * ParseInt(SubSeq(ds, 1, Len(ds) - 1)) + DigitValue(ds[Len(ds)])

\* a number as the decimal digits a template literal embeds
RECURSIVE NumberText(_)
NumberText(n) ==
  IF n < 10 THEN <<ToString(n)>>
  ELSE NumberText(n \div 10) \o <<ToString(n % 10)>>

\* ------------------------------------------------------------------------
\* Module-scope configuration
\* ------------------------------------------------------------------------
KEYWORDS ==
  { <<"S","E","L","E","C","T">>,
    <<"F","R","O","M">>,
    <<"W","H","E","R","E">>,
    <<"A","N","D">>,
    <<"O","R">>,
    <<"N","O","T">>,
    <<"I","N">>,
    <<"E","X","I","S","T","S">>,
    <<"J","O","I","N">>,
    <<"L","E","F","T">>,
    <<"R","I","G","H","T">>,
    <<"I","N","N","E","R">>,
    <<"O","U","T","E","R">>,
    <<"C","R","O","S","S">>,
    <<"F","U","L","L">>,
    <<"O","N">>,
    <<"U","S","I","N","G">>,
    <<"A","S">>,
    <<"C","A","S","E">>,
    <<"W","H","E","N">>,
    <<"T","H","E","N">>,
    <<"E","L","S","E">>,
    <<"E","N","D">>,
    <<"I","N","S","E","R","T">>,
    <<"I","N","T","O">>,
    <<"V","A","L","U","E","S">>,
    <<"U","P","D","A","T","E">>,
    <<"S","E","T">>,
    <<"D","E","L","E","T","E">>,
    <<"C","R","E","A","T","E">>,
    <<"T","A","B","L","E">>,
    <<"A","L","T","E","R">>,
    <<"D","R","O","P">>,
    <<"I","N","D","E","X">>,
    <<"V","I","E","W">>,
    <<"G","R","O","U","P">>,
    <<"B","Y">>,
    <<"O","R","D","E","R">>,
    <<"H","A","V","I","N","G">>,
    <<"L","I","M","I","T">>,
    <<"O","F","F","S","E","T">>,
    <<"U","N","I","O","N">>,
    <<"A","L","L">>,
    <<"I","N","T","E","R","S","E","C","T">>,
    <<"E","X","C","E","P","T">>,
    <<"D","I","S","T","I","N","C","T">>,
    <<"W","I","T","H">>,
    <<"R","E","C","U","R","S","I","V","E">>,
    <<"R","E","T","U","R","N","I","N","G">>,
    <<"C","O","N","F","L","I","C","T">>,
    <<"D","O">>,
    <<"N","O","T","H","I","N","G">>,
    <<"B","E","G","I","N">>,
    <<"C","O","M","M","I","T">>,
    <<"R","O","L","L","B","A","C","K">>,
    <<"T","R","A","N","S","A","C","T","I","O","N">>,
    <<"G","R","A","N","T">>,
    <<"R","E","V","O","K","E">>,
    <<"T","R","U","N","C","A","T","E">>,
    <<"C","O","P","Y">>,
    <<"E","X","P","L","A","I","N">>,
    <<"A","N","A","L","Y","Z","E">>,
    <<"P","R","I","M","A","R","Y">>,
    <<"K","E","Y">>,
    <<"F","O","R","E","I","G","N">>,
    <<"R","E","F","E","R","E","N","C","E","S">>,
    <<"C","O","N","S","T","R","A","I","N","T">>,
    <<"D","E","F","A","U","L","T">>,
    <<"N","U","L","L">>,
    <<"C","H","E","C","K">>,
    <<"U","N","I","Q","U","E">>,
    <<"I","F">>,
    <<"B","E","T","W","E","E","N">>,
    <<"L","I","K","E">>,
    <<"I","L","I","K","E">>,
    <<"S","I","M","I","L","A","R">>,
    <<"I","S">>,
    <<"T","R","U","E">>,
    <<"F","A","L","S","E">>,
    <<"A","S","C">>,
    <<"D","E","S","C">>,
    <<"N","U","L","L","S">>,
    <<"F","I","R","S","T">>,
    <<"L","A","S","T">>,
    <<"C","A","S","T">>,
    <<"C","O","A","L","E","S","C","E">>,
    <<"N","U","L","L","I","F">>,
    <<"G","R","E","A","T","E","S","T">>,
    <<"L","E","A","S","T">>,
    <<"C","O","U","N","T">>,
    <<"S","U","M">>,
    <<"A","V","G">>,
    <<"M","I","N">>,
    <<"M","A","X">>,
    <<"A","R","R","A","Y","_","A","G","G">>,
    <<"S","T","R","I","N","G","_","A","G","G">>,
    <<"O","V","E","R">>,
    <<"P","A","R","T","I","T","I","O","N">>,
    <<"W","I","N","D","O","W">>,
    <<"R","O","W","_","N","U","M","B","E","R">>,
    <<"R","A","N","K">>,
    <<"D","E","N","S","E","_","R","A","N","K">>,
    <<"L","A","G">>,
    <<"L","E","A","D">>,
    <<"F","I","R","S","T","_","V","A","L","U","E">>,
    <<"L","A","S","T","_","V","A","L","U","E">>,
    <<"N","T","H","_","V","A","L","U","E">>,
    <<"L","A","T","E","R","A","L">>,
    <<"F","E","T","C","H">>,
    <<"N","E","X","T">>,
    <<"R","O","W","S">>,
    <<"O","N","L","Y">>,
    <<"F","O","R">>,
    <<"L","O","C","K">>,
    <<"S","H","A","R","E">>,
    <<"N","O","W","A","I","T">>,
    <<"S","K","I","P">>,
    <<"L","O","C","K","E","D">> }

CLAUSE_KEYWORDS ==
  { <<"S","E","L","E","C","T">>,
    <<"F","R","O","M">>,
    <<"W","H","E","R","E">>,
    <<"J","O","I","N">>,
    <<"L","E","F","T"," ","J","O","I","N">>,
    <<"R","I","G","H","T"," ","J","O","I","N">>,
    <<"I","N","N","E","R"," ","J","O","I","N">>,
    <<"O","U","T","E","R"," ","J","O","I","N">>,
    <<"C","R","O","S","S"," ","J","O","I","N">>,
    <<"F","U","L","L"," ","J","O","I","N">>,
    <<"F","U","L","L"," ","O","U","T","E","R"," ","J","O","I","N">>,
    <<"L","E","F","T"," ","O","U","T","E","R"," ","J","O","I","N">>,
    <<"R","I","G","H","T"," ","O","U","T","E","R"," ","J","O","I","N">>,
    <<"G","R","O","U","P"," ","B","Y">>,
    <<"O","R","D","E","R"," ","B","Y">>,
    <<"H","A","V","I","N","G">>,
    <<"L","I","M","I","T">>,
    <<"O","F","F","S","E","T">>,
    <<"U","N","I","O","N">>,
    <<"U","N","I","O","N"," ","A","L","L">>,
    <<"I","N","T","E","R","S","E","C","T">>,
    <<"E","X","C","E","P","T">>,
    <<"I","N","S","E","R","T"," ","I","N","T","O">>,
    <<"V","A","L","U","E","S">>,
    <<"U","P","D","A","T","E">>,
    <<"S","E","T">>,
    <<"D","E","L","E","T","E"," ","F","R","O","M">>,
    <<"O","N">>,
    <<"U","S","I","N","G">>,
    <<"R","E","T","U","R","N","I","N","G">>,
    <<"W","I","T","H">>,
    <<"A","N","D">>,
    <<"O","R">>,
    <<"O","N"," ","C","O","N","F","L","I","C","T">>,
    <<"D","O">>,
    <<"W","I","N","D","O","W">> }


\* ------------------------------------------------------------------------
\* tokenize
\* ------------------------------------------------------------------------

Token(type, value) == [type |-> type, value |-> value]

\* the operator table of the two-character test
TwoCharOps ==
  { <<"!","=">>, <<"<",">">>, <<"<","=">>, <<">","=">>,
    <<":",":">>, <<"|","|">>, <<"-",">">>, <<"=",">">> }

\* the j at which the string scan stops: the closing quote, or past the end
RECURSIVE StringEnd(_, _)
StringEnd(s, j) ==
  IF j >= Len(s) THEN j
  ELSE IF CharAt(s, j) = "'" /\ CharAt(s, j + 1) = "'" THEN StringEnd(s, j + 2)
  ELSE IF CharAt(s, j) = "'" THEN j
  ELSE StringEnd(s, j + 1)

\* tagMatch[0] of /^\$([a-zA-Z_]*)\$/ at i, or <<>> when there is no match
DollarTag(s, i) ==
  LET e == RunEnd(s, i + 1, WordStart)
  IN IF CharAt(s, i) = "$" /\ CharAt(s, e) = "$" THEN Slice(s, i, e + 1) ELSE <<>>

\* the index of the closing tag of a dollar-quoted string opened at i, or -1
DollarEnd(s, i) ==
  LET tag == DollarTag(s, i)
  IN IF tag = <<>> THEN -1 ELSE IndexOf(s, tag, i + Len(tag))

Step(toks, next) == [emit |-> toks, i |-> next]

LineComment(s, i) ==
  LET nl == IndexOf(s, <<"\n">>, i)
      end == IF nl = -1 THEN Len(s) ELSE nl
  IN Step(<<Token("comment", Trim(Slice(s, i, end)))>>, end + 1)

\* the block comment scan without the fix-up of an unterminated comment
BlockCommentNoFixup(s, i) ==
  LET end == IndexOf(s, <<"*", "/">>, i + 2)
  IN Step(<<Token("comment", Slice(s, i, end + 2))>>, end + 2)

BlockComment(s, i) ==
  LET close == IndexOf(s, <<"*", "/">>, i + 2)
      end == IF close = -1 THEN Len(s) - 2 ELSE close
  IN Step(<<Token("comment", Slice(s, i, end + 2))>>, end + 2)

StringLiteral(s, i) ==
  LET j == StringEnd(s, i + 1)
  IN Step(<<Token("string", Slice(s, i, j + 1))>>, j + 1)

DollarString(s, i) ==
  LET tag == DollarTag(s, i)
      end == DollarEnd(s, i)
  IN Step(<<Token("string", Slice(s, i, end + Len(tag)))>>, end + Len(tag))

NumberLiteral(s, i) ==
  LET j == RunEnd(s, i, NumberChars)
  IN Step(<<Token("number", Slice(s, i, j))>>, j)

Word(s, i) ==
  LET j == RunEnd(s, i, WordChars)
      word == Slice(s, i, j)
      upper == ToUpperCase(word)
  IN IF upper \in KEYWORDS
     THEN Step(<<Token("keyword", upper)>>, j)
     ELSE Step(<<Token("identifier", word)>>, j)

\* the j at which the quoted-identifier scan stops: the next ", or the end
RECURSIVE QuoteEnd(_, _)
QuoteEnd(s, j) ==
  IF j < Len(s) /\ CharAt(s, j) # "\"" THEN QuoteEnd(s, j + 1) ELSE j

\* the quoted identifier sliced without its closing quote
QuotedIdentifierNoClose(s, i) ==
  LET j == QuoteEnd(s, i + 1)
  IN Step(<<Token("identifier", Slice(s, i, j))>>, j + 1)

QuotedIdentifier(s, i) ==
  LET j == QuoteEnd(s, i + 1)
  IN Step(<<Token("identifier", Slice(s, i, j + 1))>>, j + 1)

Operator(s, i) ==
  LET twoChar == Slice(s, i, i + 2)
      threeChar == Slice(s, i, i + 3)
  IN IF twoChar \in TwoCharOps THEN Step(<<Token("operator", twoChar)>>, i + 2)
     ELSE IF threeChar = <<"-", ">", ">">>
          THEN Step(<<Token("operator", threeChar)>>, i + 3)
     ELSE Step(<<Token("symbol", <<CharAt(s, i)>>)>>, i + 1)

\* one iteration of the scan loop at index i < s.length: the tokens it
\* pushes (none or one) and the index it leaves
ScanStep(s, i) ==
  LET c == CharAt(s, i)
      c1 == CharAt(s, i + 1)
  IN IF c \in Whitespace THEN Step(<<>>, i + 1)
     ELSE IF c = "-" /\ c1 = "-" THEN LineComment(s, i)
     ELSE IF c = "/" /\ c1 = "*" THEN BlockComment(s, i)
     ELSE IF c = "'" THEN StringLiteral(s, i)
     ELSE IF c = "$" /\ DollarEnd(s, i) # -1 THEN DollarString(s, i)
     ELSE IF c \in Digits \/ (c = "." /\ c1 \in Digits) THEN NumberLiteral(s, i)
     ELSE IF c \in WordStart THEN Word(s, i)
     ELSE IF c = "\"" THEN QuotedIdentifier(s, i)
     ELSE Operator(s, i)

RECURSIVE ScanFrom(_, _, _)
ScanFrom(s, i, toks) ==
  IF i < Len(s)
  THEN LET r == ScanStep(s, i) IN ScanFrom(s, r.i, toks \o r.emit)
  ELSE toks

tokenize(sql) == ScanFrom(sql, 0, <<>>)

\* ------------------------------------------------------------------------
\* format
\* ------------------------------------------------------------------------

\* prevToken = null
NoToken == Token("null", <<>>)

\* the locals of format at its first loop iteration
FormatInit ==
  [out |-> <<>>, indent |-> 0, lineStart |-> TRUE, prevToken |-> NoToken,
   parenDepth |-> 0]

newline(F) ==
  [F EXCEPT !.out = TrimEnd(F.out) \o <<"\n">> \o Repeat(<<" ", " ">>, F.indent),
            !.lineStart = TRUE]

space(F) ==
  IF /\ ~F.lineStart
     /\ Len(F.out) > 0
     /\ ~EndsWith(F.out, " ")
     /\ ~EndsWith(F.out, "\n")
     /\ ~EndsWith(F.out, "(")
  THEN [F EXCEPT !.out = F.out \o <<" ">>]
  ELSE F

Emit(F, text) == [F EXCEPT !.out = F.out \o text]

IsKeyword(t, word) == t.type = "keyword" /\ t.value = word

IsSymbol(t, ch) == t.type = "symbol" /\ t.value = <<ch>>

kwSELECT == <<"S","E","L","E","C","T">>

SetOperators ==
  { <<"U","N","I","O","N"," ","A","L","L">>, <<"U","N","I","O","N">>,
    <<"I","N","T","E","R","S","E","C","T">>, <<"E","X","C","E","P","T">> }

CloseParenBreakers ==
  { <<"L","I","M","I","T">>, <<"O","F","F","S","E","T">>,
    <<"A","S","C">>, <<"D","E","S","C">> }

AndOr == { <<"A","N","D">>, <<"O","R">> }

CastOperators == { <<":",":">>, <<"-",">">>, <<"-",">",">">> }

\* tokens[k] for a 0-based k, NoToken when k is out of range (undefined)
TokenAt(tokens, k) ==
  IF k >= 0 /\ k < Len(tokens) THEN tokens[k + 1] ELSE NoToken

\* the compound clause keyword starting at token i, or <<>> (null)
Compound(tokens, i) ==
  LET t == TokenAt(tokens, i)
      next == TokenAt(tokens, i + 1)
      pair == t.value \o <<" ">> \o next.value
  IN IF t.type = "keyword" /\ next.type = "keyword" /\ pair \in CLAUSE_KEYWORDS
     THEN pair
     ELSE <<>>

FormatComment(F, t) ==
  [newline(Emit(newline(F), t.value)) EXCEPT !.prevToken = t]

FormatOpenParen(F, t, next) ==
  LET spaced == IF F.prevToken.type \in {"identifier", "keyword"}
                THEN F
                ELSE space(F)
      opened == [Emit(spaced, <<"(">>) EXCEPT !.parenDepth = @ + 1]
      broken == IF IsKeyword(next, kwSELECT)
                THEN newline([opened EXCEPT !.indent = @ + 1])
                ELSE opened
  IN [broken EXCEPT !.prevToken = t, !.lineStart = FALSE]

\* the decrement without its guard
CloseDepthUnguarded(d) == d - 1

\* if (parenDepth > 0) parenDepth--
CloseDepth(d) == IF d > 0 THEN d - 1 ELSE d

CloseIndent(n) == Max(0, n - 1)

FormatCloseParen(F, t) ==
  LET closed == [F EXCEPT !.parenDepth = CloseDepth(@)]
      broken == IF /\ F.prevToken.type = "keyword"
                   /\ F.prevToken.value \in CloseParenBreakers
                THEN newline([closed EXCEPT !.indent = CloseIndent(@)])
                ELSE closed
  IN [Emit(broken, <<")">>) EXCEPT !.prevToken = t, !.lineStart = FALSE]

FormatComma(F, t) ==
  LET comma == Emit(F, <<",">>)
      after == IF F.parenDepth = 0
               THEN Emit(newline(comma), <<" ", " ">>)
               ELSE Emit(comma, <<" ">>)
  IN [after EXCEPT !.prevToken = t, !.lineStart = FALSE]

FormatSemicolon(F, t) ==
  [Emit(F, <<";", "\n">>) EXCEPT !.indent = 0, !.lineStart = TRUE, !.prevToken = t]

FormatCompound(F, compound) ==
  LET placed == IF F.parenDepth = 0
                THEN newline(IF compound \in SetOperators
                             THEN [F EXCEPT !.indent = 0]
                             ELSE F)
                ELSE space(F)
  IN [Emit(placed, compound) EXCEPT !.prevToken = Token("keyword", compound),
                                    !.lineStart = FALSE]

\* the keyword branch with AND and OR placed as the other clause keywords
FormatKeywordFlat(F, t) ==
  LET placed == IF t.value \in CLAUSE_KEYWORDS /\ F.parenDepth = 0
                THEN Emit(newline(F), t.value)
                ELSE Emit(space(F), t.value)
  IN [placed EXCEPT !.prevToken = t, !.lineStart = FALSE]

FormatKeyword(F, t) ==
  LET placed == IF t.value \in CLAUSE_KEYWORDS /\ F.parenDepth = 0
                THEN IF t.value \in AndOr
                     THEN Emit(newline(F), <<" ", " ">> \o t.value)
                     ELSE Emit(newline(F), t.value)
                ELSE Emit(space(F), t.value)
  IN [placed EXCEPT !.prevToken = t, !.lineStart = FALSE]

FormatDefault(F, t) ==
  LET placed == IF t.type = "operator" /\ t.value \in CastOperators
                THEN Emit(F, t.value)
                ELSE IF IsSymbol(t, ".")
                THEN [F EXCEPT !.out = TrimEnd(F.out) \o <<".">>]
                ELSE IF IsSymbol(F.prevToken, ".")
                THEN Emit(F, t.value)
                ELSE Emit(space(F), t.value)
  IN [placed EXCEPT !.prevToken = t, !.lineStart = FALSE]

\* one iteration of the loop of format at token index i < tokens.length:
\* the locals after it, and the index of the next iteration
FormatToken(tokens, i, F) ==
  LET t == TokenAt(tokens, i)
      next == TokenAt(tokens, i + 1)
      compound == Compound(tokens, i)
  IN IF t.type = "comment" THEN [F |-> FormatComment(F, t), i |-> i + 1]
     ELSE IF IsSymbol(t, "(") THEN [F |-> FormatOpenParen(F, t, next), i |-> i + 1]
     ELSE IF IsSymbol(t, ")") THEN [F |-> FormatCloseParen(F, t), i |-> i + 1]
     ELSE IF IsSymbol(t, ",") THEN [F |-> FormatComma(F, t), i |-> i + 1]
     ELSE IF IsSymbol(t, ";") THEN [F |-> FormatSemicolon(F, t), i |-> i + 1]
     ELSE IF compound # <<>> THEN [F |-> FormatCompound(F, compound), i |-> i + 2]
     ELSE IF t.type = "keyword" THEN [F |-> FormatKeyword(F, t), i |-> i + 1]
     ELSE [F |-> FormatDefault(F, t), i |-> i + 1]

\* the return statement with trimEnd in the place of trim
FormatResultTrimEnd(out) == TrimEnd(out) \o <<"\n">>

\* the return statement of format
FormatResult(out) == Trim(out) \o <<"\n">>

RECURSIVE FormatFrom(_, _, _)
FormatFrom(tokens, i, F) ==
  IF i < Len(tokens)
  THEN LET r == FormatToken(tokens, i, F) IN FormatFrom(tokens, r.i, r.F)
  ELSE FormatResult(F.out)

format(sql) == FormatFrom(tokenize(sql), 0, FormatInit)

\* ------------------------------------------------------------------------
\* analyze
\* ------------------------------------------------------------------------

\* a finding; arg is the text a template literal embeds in the message
Finding(level, message, arg) == [level |-> level, message |-> message, arg |-> arg]

SelectStarMessage ==
  "SELECT * can cause performance issues and breaks when columns change. Specify columns explicitly."

UpdateMessage == "UPDATE without WHERE clause will modify ALL rows in the table."

DeleteMessage == "DELETE without WHERE clause will remove ALL rows from the table."

LikeMessage ==
  "LIKE with leading wildcard ('%...') cannot use a B-tree index. Consider pg_trgm or full-text search."

NotInMessage ==
  "NOT IN with subquery can return unexpected results if subquery returns NULL. Use NOT EXISTS instead."

OrderByMessage ==
  "ORDER BY without LIMIT sorts the entire result set. Add LIMIT if you only need a subset."

CastMessage ==
  "${castCount} explicit casts detected. Excessive casting may indicate schema/type mismatches."

OffsetMessage ==
  "Large OFFSET (${match[1]}) is slow - Postgres must scan and discard rows. Use keyset pagination instead."

JoinMessage ==
  "${joinCount} JOINs detected. Consider if all are necessary - each join multiplies the planner's work."

NowMessage ==
  "now() returns the same value for the entire transaction. Use clock_timestamp() if you need wall-clock time."

CoalesceMessage ==
  "COALESCE in WHERE clause may prevent index usage. Consider restructuring with IS NULL / IS NOT NULL."

kwDISTINCT == <<"D","I","S","T","I","N","C","T">>

kwUPDATE == <<"U","P","D","A","T","E">>

kwDELETE == <<"D","E","L","E","T","E">>

kwWHERE == <<"W","H","E","R","E">>

kwORDER == <<"O","R","D","E","R">>

kwLIMIT == <<"L","I","M","I","T">>

kwFETCH == <<"F","E","T","C","H">>

kwJOIN == <<"J","O","I","N">>

kwOFFSET == <<"O","F","F","S","E","T">>

kwCOALESCE == <<"C","O","A","L","E","S","C","E">>

\* the indices lo, ..., hi-1 a for loop visits, ascending
LoopIndices(lo, hi) == [k \in 1..(hi - lo) |-> lo + k - 1]

\* the look-ahead without the skip of DISTINCT
SelectStarAtNoDistinct(tokens, i) ==
  /\ IsKeyword(TokenAt(tokens, i), kwSELECT)
  /\ IsSymbol(TokenAt(tokens, i + 1), "*")

\* the look-ahead of the SELECT * rule at token i
SelectStarAt(tokens, i) ==
  LET j == IF IsKeyword(TokenAt(tokens, i + 1), kwDISTINCT) THEN i + 2 ELSE i + 1
  IN /\ IsKeyword(TokenAt(tokens, i), kwSELECT)
     /\ IsSymbol(TokenAt(tokens, j), "*")

SelectStarRule(tokens) ==
  LET hits == SelectSeq(LoopIndices(0, Len(tokens) - 1), LAMBDA i : SelectStarAt(tokens, i))
  IN [k \in 1..Len(hits) |-> Finding("warn", SelectStarMessage, <<>>)]

\* the inner loop without the break at ;
RECURSIVE HasWhereAcrossStatements(_, _)
HasWhereAcrossStatements(tokens, j) ==
  IF j >= Len(tokens) THEN FALSE
  ELSE IF IsKeyword(TokenAt(tokens, j), kwWHERE) THEN TRUE
  ELSE HasWhereAcrossStatements(tokens, j + 1)

\* the inner loop of the UPDATE/DELETE rules from token j: a WHERE keyword
\* is met before a ; and before the end
RECURSIVE HasWhere(_, _)
HasWhere(tokens, j) ==
  IF j >= Len(tokens) THEN FALSE
  ELSE IF IsSymbol(TokenAt(tokens, j), ";") THEN FALSE
  ELSE IF IsKeyword(TokenAt(tokens, j), kwWHERE) THEN TRUE
  ELSE HasWhere(tokens, j + 1)

NoWhereAt(tokens, i, kw) ==
  IsKeyword(TokenAt(tokens, i), kw) /\ ~HasWhere(tokens, i + 1)

UpdateRule(tokens) ==
  LET hits == SelectSeq(LoopIndices(0, Len(tokens)), LAMBDA i : NoWhereAt(tokens, i, kwUPDATE))
  IN [k \in 1..Len(hits) |-> Finding("error", UpdateMessage, <<>>)]

DeleteRule(tokens) ==
  LET hits == SelectSeq(LoopIndices(0, Len(tokens)), LAMBDA i : NoWhereAt(tokens, i, kwDELETE))
  IN [k \in 1..Len(hits) |-> Finding("error", DeleteMessage, <<>>)]

LikeRule(upper) ==
  IF Includes(upper, <<"L","I","K","E"," ","'","%">>)
  THEN <<Finding("warn", LikeMessage, <<>>)>>
  ELSE <<>>

\* /NOT\s+IN\s*\(/i matches at p
NotInAt(sql, p) ==
  LET upper == ToUpperCase(sql)
      a == RunEnd(sql, p + 3, Whitespace)
      b == RunEnd(sql, a + 2, Whitespace)
  IN /\ StartsAt(upper, <<"N","O","T">>, p)
     /\ a > p + 3
     /\ StartsAt(upper, <<"I","N">>, a)
     /\ CharAt(sql, b) = "("

NotInRule(sql) ==
  IF \E p \in 0..Len(sql) : NotInAt(sql, p)
  THEN <<Finding("warn", NotInMessage, <<>>)>>
  ELSE <<>>

HasKeyword(tokens, kw) == \E k \in 1..Len(tokens) : IsKeyword(tokens[k], kw)

OrderByRule(tokens) ==
  IF /\ HasKeyword(tokens, kwORDER)
     /\ ~HasKeyword(tokens, kwLIMIT)
     /\ ~HasKeyword(tokens, kwFETCH)
  THEN <<Finding("info", OrderByMessage, <<>>)>>
  ELSE <<>>

\* (sql.match(/pat/g) || []).length: the non-overlapping occurrences
RECURSIVE CountMatches(_, _, _)
CountMatches(s, pat, from) ==
  LET at == IndexOf(s, pat, from)
  IN IF at = -1 THEN 0 ELSE 1 + CountMatches(s, pat, at + Len(pat))

CastLimit == 3

\* the casts rule with the limit included
CastRuleAtLimit(sql) ==
  LET castCount == CountMatches(sql, <<":", ":">>, 0)
  IN IF castCount >= CastLimit
     THEN <<Finding("info", CastMessage, NumberText(castCount))>>
     ELSE <<>>

CastRule(sql) ==
  LET castCount == CountMatches(sql, <<":", ":">>, 0)
  IN IF castCount > CastLimit
     THEN <<Finding("info", CastMessage, NumberText(castCount))>>
     ELSE <<>>

\* /OFFSET\s+(\d+)/i matches at p
OffsetAt(sql, p) ==
  LET a == RunEnd(sql, p + 6, Whitespace)
  IN /\ StartsAt(ToUpperCase(sql), kwOFFSET, p)
     /\ a > p + 6
     /\ CharAt(sql, a) \in Digits

\* match[1] of the match at p
OffsetDigits(sql, p) ==
  LET a == RunEnd(sql, p + 6, Whitespace)
  IN Slice(sql, a, RunEnd(sql, a, Digits))

\* sql.match(/OFFSET\s+(\d+)/i): the position of the match, -1 for null
OffsetMatch(sql) ==
  LET hits == {p \in 0..Len(sql) : OffsetAt(sql, p)}
  IN IF hits = {} THEN -1 ELSE CHOOSE p \in hits : \A h \in hits : p <= h

OffsetLimit == 1000

OffsetRule(sql) ==
  LET p == OffsetMatch(sql)
  IN IF p # -1 /\ ParseInt(OffsetDigits(sql, p)) > OffsetLimit
     THEN <<Finding("warn", OffsetMessage, OffsetDigits(sql, p))>>
     ELSE <<>>

JoinLimit == 5

JoinRule(tokens) ==
  LET joinCount == Cardinality({k \in 1..Len(tokens) : IsKeyword(tokens[k], kwJOIN)})
  IN IF joinCount >= JoinLimit
     THEN <<Finding("info", JoinMessage, NumberText(joinCount))>>
     ELSE <<>>

\* /\bnow\(\)/i matches at p
NowAt(sql, p) ==
  /\ StartsAt(ToUpperCase(sql), <<"N","O","W","(",")">>, p)
  /\ CharAt(sql, p - 1) \notin WordChars

NowRule(sql) ==
  IF \E p \in 0..Len(sql) : NowAt(sql, p)
  THEN <<Finding("info", NowMessage, <<>>)>>
  ELSE <<>>

\* /WHERE[\s\S]*?COALESCE/i
CoalesceRule(sql) ==
  LET upper == ToUpperCase(sql)
      w == IndexOf(upper, kwWHERE, 0)
  IN IF w # -1 /\ IndexOf(upper, kwCOALESCE, w + 5) # -1
     THEN <<Finding("info", CoalesceMessage, <<>>)>>
     ELSE <<>>

analyze(sql) ==
  LET upper == ToUpperCase(sql)
      tokens == tokenize(sql)
  IN SelectStarRule(tokens) \o UpdateRule(tokens) \o DeleteRule(tokens)
       \o LikeRule(upper) \o NotInRule(sql) \o OrderByRule(tokens)
       \o CastRule(sql) \o OffsetRule(sql) \o JoinRule(tokens)
       \o NowRule(sql) \o CoalesceRule(sql)

\* ------------------------------------------------------------------------
\* The bundled browser variant (PGTools)
\* ------------------------------------------------------------------------

\* the operator branch of the bundled tokenize: ->> is tested first
BundleOperator(s, i) ==
  LET three == Slice(s, i, i + 3)
      two == Slice(s, i, i + 2)
  IN IF three = <<"-", ">", ">">> THEN Step(<<Token("operator", three)>>, i + 3)
     ELSE IF two \in TwoCharOps THEN Step(<<Token("operator", two)>>, i + 2)
     ELSE Step(<<Token("symbol", <<CharAt(s, i)>>)>>, i + 1)

\* one iteration of the scan loop of the bundled tokenize; its branches
\* before the operators are, statement for statement, those of the module
BundleScanStep(s, i) ==
  LET c == CharAt(s, i)
      c1 == CharAt(s, i + 1)
  IN IF c \in Whitespace THEN Step(<<>>, i + 1)
     ELSE IF c = "-" /\ c1 = "-" THEN LineComment(s, i)
     ELSE IF c = "/" /\ c1 = "*" THEN BlockComment(s, i)
     ELSE IF c = "'" THEN StringLiteral(s, i)
     ELSE IF c = "$" /\ DollarEnd(s, i) # -1 THEN DollarString(s, i)
     ELSE IF c \in Digits \/ (c = "." /\ c1 \in Digits) THEN NumberLiteral(s, i)
     ELSE IF c \in WordStart THEN Word(s, i)
     ELSE IF c = "\"" THEN QuotedIdentifier(s, i)
     ELSE BundleOperator(s, i)

RECURSIVE BundleScanFrom(_, _, _)
BundleScanFrom(s, i, toks) ==
  IF i < Len(s)
  THEN LET r == BundleScanStep(s, i) IN BundleScanFrom(s, r.i, toks \o r.emit)
  ELSE toks

\* PGTools.tokenize
BundleTokenize(sql) == BundleScanFrom(sql, 0, <<>>)

\* ------------------------------------------------------------------------
\* The type detector
\* ------------------------------------------------------------------------

\* a sample value: null, or a text
Cell(text) == [null |-> FALSE, text |-> text]

NullCell == [null |-> TRUE, text |-> <<>>]

\* the result of detectType for a value without a type
NullType == "null"

HexDigits == Digits \cup {"a", "b", "c", "d", "e", "f", "A", "B", "C", "D", "E", "F"}

LowerChar(c) ==
  IF c \in UpperLetters THEN CHOOSE l \in LowerLetters : UpMap[l] = c ELSE c

ToLowerCase(s) == [k \in 1..Len(s) |-> LowerChar(s[k])]

\* every character of s[a..b-1] is of class cls, and there are n of them
RunOf(s, a, n, cls) ==
  /\ a + n <= Len(s)
  /\ \A k \in (a + 1)..(a + n) : s[k] \in cls

\* /^[0-9a-f]{8}-[0-9a-f]{4}-[0-9a-f]{4}-[0-9a-f]{4}-[0-9a-f]{12}$/i
UUID_RE(v) ==
  /\ Len(v) = 36
  /\ RunOf(v, 0, 8, HexDigits) /\ v[9] = "-"
  /\ RunOf(v, 9, 4, HexDigits) /\ v[14] = "-"
  /\ RunOf(v, 14, 4, HexDigits) /\ v[19] = "-"
  /\ RunOf(v, 19, 4, HexDigits) /\ v[24] = "-"
  /\ RunOf(v, 24, 12, HexDigits)

\* /^\d{4}-\d{2}-\d{2}/ as a prefix
DatePrefix(v) ==
  /\ Len(v) >= 10
  /\ RunOf(v, 0, 4, Digits) /\ v[5] = "-"
  /\ RunOf(v, 5, 2, Digits) /\ v[8] = "-"
  /\ RunOf(v, 8, 2, Digits)

\* /^\d{4}-\d{2}-\d{2}$/
DATE_RE(v) == DatePrefix(v) /\ Len(v) = 10

\* the index after /^\d{4}-\d{2}-\d{2}[T ]\d{2}:\d{2}(:\d{2})?(\.\d+)?/, -1 when
\* the text does not begin so
TimestampEnd(v) ==
  IF ~(/\ DatePrefix(v)
       /\ CharAt(v, 10) \in {"T", " "}
       /\ RunOf(v, 11, 2, Digits) /\ CharAt(v, 13) = ":"
       /\ RunOf(v, 14, 2, Digits))
  THEN -1
  ELSE LET a == IF CharAt(v, 16) = ":" /\ RunOf(v, 17, 2, Digits) THEN 19 ELSE 16
           b == IF CharAt(v, a) = "." /\ CharAt(v, a + 1) \in Digits
                THEN RunEnd(v, a + 1, Digits) ELSE a
       IN b

TIMESTAMP_RE(v) == TimestampEnd(v) # -1 /\ TimestampEnd(v) = Len(v)

\* ... followed by (Z|[+-]\d{2}:?\d{2})$
TIMESTAMPTZ_RE(v) ==
  LET e == TimestampEnd(v)
  IN /\ e # -1
     /\ \/ Len(v) = e + 1 /\ CharAt(v, e) = "Z"
        \/ /\ CharAt(v, e) \in {"+", "-"}
           /\ RunOf(v, e + 1, 2, Digits)
           /\ \/ Len(v) = e + 5 /\ RunOf(v, e + 3, 2, Digits)
              \/ Len(v) = e + 6 /\ CharAt(v, e + 3) = ":" /\ RunOf(v, e + 4, 2, Digits)

\* /^-?\d+$/
INTEGER_RE(v) ==
  LET a == IF CharAt(v, 0) = "-" THEN 1 ELSE 0
  IN a < Len(v) /\ RunEnd(v, a, Digits) = Len(v)

\* /^-?\d+\.\d+$/
NUMERIC_RE(v) ==
  LET a == IF CharAt(v, 0) = "-" THEN 1 ELSE 0
      b == RunEnd(v, a, Digits)
  IN /\ b > a
     /\ CharAt(v, b) = "."
     /\ b + 1 < Len(v)
     /\ RunEnd(v, b + 1, Digits) = Len(v)

BOOLEAN_VALS ==
  { <<"t","r","u","e">>, <<"f","a","l","s","e">>, <<"t">>, <<"f">>, <<"y","e","s">>, <<"n","o">> }

\* an integer of any size: its sign and the digits of its magnitude, without
\* leading zeros (no digit for zero, which has no sign)
RECURSIVE StripZeros(_)
StripZeros(ds) ==
  IF ds # <<>> /\ ds[1] = "0" THEN StripZeros(Tail(ds)) ELSE ds

\* BigInt(v) for a text INTEGER_RE accepts
BigInt(v) ==
  LET neg == v[1] = "-"
      mag == StripZeros(IF neg THEN Tail(v) ELSE v)
  IN [neg |-> neg /\ mag # <<>>, mag |-> mag]

\* a < b for magnitudes
RECURSIVE MagLess(_, _)
MagLess(a, b) ==
  IF Len(a) # Len(b) THEN Len(a) < Len(b)
  ELSE IF a = <<>> THEN FALSE
  ELSE IF a[1] # b[1] THEN DigitValue(a[1]) < DigitValue(b[1])
  ELSE MagLess(Tail(a), Tail(b))

\* m <= n for integers of any size
BigLE(m, n) ==
  IF m.neg # n.neg THEN m.neg
  ELSE IF m.neg THEN ~MagLess(m.mag, n.mag)
  ELSE ~MagLess(n.mag, m.mag)

Big(neg, digits) == [neg |-> neg, mag |-> digits]

SmallintMin == Big(TRUE, <<"3","2","7","6","8">>)

SmallintMax == Big(FALSE, <<"3","2","7","6","7">>)

IntegerMin == Big(TRUE, <<"2","1","4","7","4","8","3","6","4","8">>)

IntegerMax == Big(FALSE, <<"2","1","4","7","4","8","3","6","4","7">>)

BigintMin == Big(TRUE, <<"9","2","2","3","3","7","2","0","3","6","8","5","4","7","7","5","8","0","8">>)

BigintMax == Big(FALSE, <<"9","2","2","3","3","7","2","0","3","6","8","5","4","7","7","5","8","0","7">>)

\* the ranges with the lower bounds the negatives of the upper bounds
IntegerTypeSymmetric(n) ==
  IF BigLE(Big(TRUE, SmallintMax.mag), n) /\ BigLE(n, SmallintMax) THEN "smallint"
  ELSE IF BigLE(Big(TRUE, IntegerMax.mag), n) /\ BigLE(n, IntegerMax) THEN "integer"
  ELSE IF BigLE(Big(TRUE, BigintMax.mag), n) /\ BigLE(n, BigintMax) THEN "bigint"
  ELSE "numeric"

\* the type of an integer by range
IntegerType(n) ==
  IF BigLE(SmallintMin, n) /\ BigLE(n, SmallintMax) THEN "smallint"
  ELSE IF BigLE(IntegerMin, n) /\ BigLE(n, IntegerMax) THEN "integer"
  ELSE IF BigLE(BigintMin, n) /\ BigLE(n, BigintMax) THEN "bigint"
  ELSE "numeric"

\* !isNaN(new Date(v).getTime()) for a text DATE_RE accepts, as Node parses
\* it: the month is 01..12 and the day 01..31
DateIsValid(v) ==
  LET month == ParseInt(Slice(v, 5, 7))
      day == ParseInt(Slice(v, 8, 10))
  IN month >= 1 /\ month <= 12 /\ day >= 1 /\ day <= 31

\* the texts JSON.parse accepts among those of brackets, braces, commas and
\* the digit 1, to a nesting depth of two
JsonScalars == { <<"1">>, <<"{", "}">>, <<"[", "]">> }

JsonArrays(items) ==
  {<<"[">> \o x \o <<"]">> : x \in items}
    \cup {<<"[">> \o x \o <<",">> \o y \o <<"]">> : x \in items, y \in items}

JsonParses(v) ==
  v \in JsonScalars \cup JsonArrays(JsonScalars \cup JsonArrays(JsonScalars))

LooksLikeJson(v) ==
  \/ CharAt(v, 0) = "{" /\ EndsWith(v, "}")
  \/ CharAt(v, 0) = "[" /\ EndsWith(v, "]")

detectType(value) ==
  IF value.null \/ value.text = <<>> THEN NullType
  ELSE LET v == Trim(value.text)
       IN IF v = <<>> THEN NullType
          ELSE IF UUID_RE(v) THEN "uuid"
          ELSE IF INTEGER_RE(v) THEN IntegerType(BigInt(v))
          ELSE IF NUMERIC_RE(v) THEN "numeric"
          ELSE IF ToLowerCase(v) \in BOOLEAN_VALS THEN "boolean"
          ELSE IF TIMESTAMPTZ_RE(v) THEN "timestamptz"
          ELSE IF TIMESTAMP_RE(v) THEN "timestamp"
          ELSE IF DATE_RE(v) /\ DateIsValid(v) THEN "date"
          ELSE IF LooksLikeJson(v) /\ JsonParses(v) THEN "jsonb"
          ELSE "text"

\* resolveType(types): the column type for the detected types
resolveType(types) ==
  LET unique == {types[k] : k \in 1..Len(types)} \ {NullType}
      intTypes == {"smallint", "integer", "bigint"}
      numericTypes == {"smallint", "integer", "bigint", "numeric"}
      timeTypes == {"date", "timestamp", "timestamptz"}
      boolIntTypes == {"boolean", "smallint", "integer", "bigint"}
  IN IF unique = {} THEN "text"
     ELSE IF Cardinality(unique) = 1 THEN CHOOSE t \in unique : TRUE
     ELSE IF unique \subseteq intTypes
          THEN IF "bigint" \in unique THEN "bigint"
               ELSE IF "integer" \in unique THEN "integer"
               ELSE "smallint"
     ELSE IF unique \subseteq numericTypes THEN "numeric"
     ELSE IF unique \subseteq timeTypes
          THEN IF "timestamptz" \in unique THEN "timestamptz"
               ELSE IF "timestamp" \in unique THEN "timestamp"
               ELSE "date"
     ELSE IF unique \subseteq boolIntTypes THEN "smallint"
     ELSE "text"

\* what analyzeColumn returns for the values and their detected types
ColumnAnalysis(values, types) ==
  LET nullCount == Cardinality({k \in 1..Len(types) : types[k] = NullType})
      nonNull == SelectSeq(values, LAMBDA v : ~v.null /\ Trim(v.text) # <<>>)
  IN [ pgType |-> resolveType(types),
       nullable |-> nullCount > 0,
       isUnique |-> /\ Cardinality({nonNull[k].text : k \in 1..Len(nonNull)}) = Len(nonNull)
                    /\ Len(nonNull) > 1,
       sampleSize |-> Len(values),
       nullCount |-> nullCount ]

analyzeColumn(values) ==
  ColumnAnalysis(values, [k \in 1..Len(values) |-> detectType(values[k])])

\* no column analysed yet
NoAnalysis ==
  [pgType |-> NullType, nullable |-> FALSE, isUnique |-> FALSE, sampleSize |-> 0, nullCount |-> 0]

\* .replace(/_+/g, '_')
RECURSIVE CollapseUnderscores(_)
CollapseUnderscores(s) ==
  IF Len(s) < 2 THEN s
  ELSE IF s[1] = "_" /\ s[2] = "_" THEN CollapseUnderscores(Tail(s))
  ELSE <<s[1]>> \o CollapseUnderscores(Tail(s))

reserved ==
  { <<"s","e","l","e","c","t">>,
    <<"f","r","o","m">>,
    <<"w","h","e","r","e">>,
    <<"t","a","b","l","e">>,
    <<"c","o","l","u","m","n">>,
    <<"i","n","d","e","x">>,
    <<"o","r","d","e","r">>,
    <<"g","r","o","u","p">>,
    <<"l","i","m","i","t">>,
    <<"o","f","f","s","e","t">>,
    <<"u","s","e","r">>,
    <<"d","e","f","a","u","l","t">>,
    <<"c","h","e","c","k">>,
    <<"p","r","i","m","a","r","y">>,
    <<"k","e","y">>,
    <<"r","e","f","e","r","e","n","c","e","s">>,
    <<"c","o","n","s","t","r","a","i","n","t">>,
    <<"t","y","p","e">>,
    <<"a","l","l">>,
    <<"a","n","d">>,
    <<"o","r">>,
    <<"n","o","t">>,
    <<"n","u","l","l">>,
    <<"t","r","u","e">>,
    <<"f","a","l","s","e">>,
    <<"a","s">>,
    <<"i","n">>,
    <<"o","n">>,
    <<"i","s">>,
    <<"b","y">>,
    <<"t","o">>,
    <<"d","o">>,
    <<"i","f">>,
    <<"e","n","d">> }

sanitizeName(name) ==
  LET lower == ToLowerCase(name)
      replaced == [k \in 1..Len(lower) |->
                     IF lower[k] \in LowerLetters \cup Digits \cup {"_"} THEN lower[k] ELSE "_"]
      collapsed == CollapseUnderscores(replaced)
      headless == IF Len(collapsed) > 0 /\ collapsed[1] = "_" THEN Tail(collapsed) ELSE collapsed
      stripped == IF Len(headless) > 0 /\ headless[Len(headless)] = "_"
                  THEN SubSeq(headless, 1, Len(headless) - 1) ELSE headless
      clean == IF stripped = <<>> \/ stripped[1] \in Digits
               THEN <<"c", "o", "l", "_">> \o stripped ELSE stripped
  IN IF clean \in reserved THEN clean \o <<"_", "c", "o", "l">> ELSE clean

\* no statement built yet
NoDDL == [tbl |-> <<>>, id |-> FALSE, columns |-> <<>>, indexes |-> <<>>]

\* generateDDL not called yet
NoGenerate ==
  [ tableName |-> <<>>, headers |-> <<>>, rows |-> <<>>, addId |-> FALSE,
    includeIndexes |-> FALSE, columns |-> <<>>, indexes |-> <<>>, colMeta |-> <<>>,
    ddl |-> NoDDL ]

\* ------------------------------------------------------------------------
\* State
\* ------------------------------------------------------------------------
VARIABLES
  mode,        \* the family of inputs the calls draw from (fixed by Init)
  calls,       \* the number of calls made so far
  log,         \* the completed earlier calls: input, formatted text, findings
  pc,          \* where the current call is
  sql,         \* the input text of the current call
  i,           \* tokenize: the scan index
  tokens,      \* tokenize: the tokens pushed so far (the result at the end)
  fi,          \* format: the loop index i
  out,         \* format: the output built so far
  indent,      \* format: the indent level
  lineStart,   \* format: the line-start flag
  prevToken,   \* format: the previous token (NoToken for null)
  parenDepth,  \* format: the paren depth
  formatted,   \* the text format returned
  findings,    \* the list analyze returned
  request,     \* server: the body of the request being handled
  responses,   \* server: the responses sent for that request, in order
  stdout,      \* command line: the chunks written to standard output
  values,      \* analyzeColumn: the sample values of the column
  types,       \* analyzeColumn: the types detected so far, value by value
  analysis,    \* analyzeColumn: the record it returned
  gen          \* generateDDL: its arguments, locals and result

\* what the callers exchange with the outside
io == <<request, responses, stdout>>

\* the state of the column analysis
sheet == <<values, types, analysis, gen>>

vars ==
  <<mode, calls, log, pc, sql, i, tokens, fi, out, indent, lineStart,
    prevToken, parenDepth, formatted, findings, request, responses, stdout,
    values, types, analysis, gen>>


\* ------------------------------------------------------------------------
\* Inputs
\* ------------------------------------------------------------------------

\* the concatenations of at most n fragments
RECURSIVE Texts(_, _)
Texts(frags, n) ==
  IF n = 0 THEN {<<>>}
  ELSE LET shorter == Texts(frags, n - 1)
       IN shorter \cup {p \o f : p \in shorter, f \in frags}

\* fragments of formatter inputs
FmtFrags ==
  { <<" ">>,
    <<"a">>,
    <<"(">>,
    <<")">>,
    <<",">>,
    <<";">>,
    <<"s","e","l","e","c","t"," ">>,
    <<"l","i","m","i","t">>,
    <<"-","-","c","\n">> }

\* characters of lexer inputs
LexChars ==
  { <<"a">>,
    <<"1">>,
    <<"-">>,
    <<"/">>,
    <<"*">>,
    <<"'">>,
    <<"$">>,
    <<"\"">>,
    <<"\n">> }

\* characters of inputs without comments and strings
ReconChars ==
  { <<"o">>,
    <<"N">>,
    <<"\"">>,
    <<" ">>,
    <<"-">>,
    <<">">>,
    <<"1">>,
    <<".">> }

\* select <operand><op><operand><op><operand>
Operands ==
  { <<"a">>,
    <<"0">>,
    <<"1">> }

Ops ==
  { <<" ","-",">"," ">>,
    <<"-",">">>,
    <<".">>,
    <<":",":">>,
    <<" ","-"," ">>,
    <<" ",","," ">> }

ExprInputs ==
  { <<"s","e","l","e","c","t"," ">> \o a \o p \o b \o q \o c :
      a \in Operands, b \in Operands, c \in Operands, p \in Ops, q \in Ops }

\* select <item>,<item> from <table> where <cond>
Items ==
  { <<"i","d">>,
    <<"n","a","m","e">>,
    <<"a","1">> }

Seps ==
  { <<",">>,
    <<" ",","," ">>,
    <<","," ">> }

Tables ==
  { <<"u","s","e","r","s">>,
    <<"t">> }

Conds ==
  { <<"i","d","=","1">>,
    <<"a","<","b">> }

ShapeInputs ==
  { <<"s","e","l","e","c","t"," ">> \o a \o s \o b \o <<" ","f","r","o","m"," ">> \o t \o <<" ","w","h","e","r","e"," ">> \o c :
      a \in Items, s \in Seps, b \in Items, t \in Tables, c \in Conds }

\* scripts of at most MaxStmts statements separated by ;
Stmts ==
  { <<"u","p","d","a","t","e"," ","t"," ","s","e","t"," ","a","=","1">>,
    <<"u","p","d","a","t","e"," ","t"," ","s","e","t"," ","a","=","1"," ","w","h","e","r","e"," ","b">>,
    <<"d","e","l","e","t","e"," ","f","r","o","m"," ","t">>,
    <<"d","e","l","e","t","e"," ","f","r","o","m"," ","t"," ","w","h","e","r","e"," ","b">>,
    <<"s","e","l","e","c","t"," ","a"," ","f","r","o","m"," ","t"," ","w","h","e","r","e"," ","b">>,
    <<"s","e","l","e","c","t"," ","1">> }

RECURSIVE Scripts(_)
Scripts(n) ==
  IF n <= 1 THEN Stmts
  ELSE LET shorter == Scripts(n - 1)
       IN shorter \cup {p \o <<";", " ">> \o s : p \in shorter, s \in Stmts}

DmlInputs == Scripts(MaxStmts) \cup {p \o <<";">> : p \in Scripts(MaxStmts)}

\* fragments of projection inputs
StarFrags ==
  { <<"s","e","l","e","c","t"," ">>,
    <<"d","i","s","t","i","n","c","t"," ">>,
    <<"*"," ">>,
    <<"i","d"," ">>,
    <<"c","o","u","n","t","(","*",")"," ">>,
    <<"t",".","*"," ">>,
    <<"f","r","o","m"," ","t"," ">> }

\* fragments of pagination inputs
OffsetFrags ==
  { <<"o","f","f","s","e","t"," ","1","0"," ">>,
    <<"o","f","f","s","e","t"," ","1","0","0","0"," ">>,
    <<"o","f","f","s","e","t"," ","1","0","0","1"," ">>,
    <<"O","f","f","s","e","t","\n","5","0","0","0"," ">>,
    <<"s","e","l","e","c","t"," ","a"," ","f","r","o","m"," ","t"," ">>,
    <<"l","i","m","i","t"," ","5"," ">>,
    <<";"," ">> }

\* inputs of call sequences
CallInputs ==
  { <<"(","s","e","l","e","c","t">>,
    <<"a",",","b">>,
    <<"a",")">>,
    <<"u","p","d","a","t","e"," ","t">>,
    <<"s","e","l","e","c","t"," ","*">>,
    <<"l","i","m","i","t",")">> }

\* request texts: blank ones and statements
ServerFrags ==
  { <<" ">>,
    <<"\n">>,
    <<"s","e","l","e","c","t"," ","*">>,
    <<"a">> }

\* command-line texts: statements that raise findings of each level
CliFrags ==
  { <<"u","p","d","a","t","e"," ","t"," ">>,
    <<"s","e","l","e","c","t"," ","*"," ">>,
    <<"o","r","d","e","r"," ","b","y"," ","a"," ">>,
    <<"o","f","f","s","e","t"," ","5","0","0","0"," ">>,
    <<"a"," ">> }

\* clause keywords, phrases and set operators, inside and outside parentheses
ClauseFrags ==
  { <<"(","s","e","l","e","c","t"," ">>,
    <<"(">>,
    <<")">>,
    <<"a","n","d"," ">>,
    <<"o","r","d","e","r"," ","b","y"," ">>,
    <<"u","n","i","o","n"," ","a","l","l"," ">>,
    <<"u","n","i","o","n"," ">>,
    <<"l","e","f","t"," ","o","u","t","e","r"," ","j","o","i","n"," ">>,
    <<"a"," ">> }

\* qualified names: select <qualifier>.<name> [from t]
DotInputs ==
  { <<"s","e","l","e","c","t"," ">> \o a \o <<".">> \o b \o c :
      a \in { <<"t">>,
        <<"t"," ">>,
        <<"\"","T","\"">> },
      b \in { <<"i","d">>,
        <<"k","e","y">>,
        <<"o","r","d","e","r">>,
        <<"*">>,
        <<"1">>,
        <<"\"","c","\"">>,
        <<" ","i","d">> },
      c \in {<<>>, <<" ","f","r","o","m"," ","t">>} }

\* comments among the tokens that can precede and follow them
CommentFrags ==
  { <<"-","-","c","\n">>,
    <<"/","*","c","*","/">>,
    <<".">>,
    <<"a">>,
    <<"s","e","l","e","c","t"," ">>,
    <<",">>,
    <<";">>,
    <<"(">> }

\* fragments of scripts with row locks and upserts
LockFrags ==
  { <<"s","e","l","e","c","t"," ","a"," ","f","r","o","m"," ","t">>,
    <<" ","f","o","r"," ","u","p","d","a","t","e">>,
    <<"i","n","s","e","r","t"," ","i","n","t","o"," ","t"," ","v","a","l","u","e","s"," ","(","1",")"," ","o","n"," ","c","o","n","f","l","i","c","t"," ","(","a",")"," ","d","o"," ","u","p","d","a","t","e"," ","s","e","t"," ","a","=","1">>,
    <<";"," ">>,
    <<"u","p","d","a","t","e"," ","t"," ","s","e","t"," ","a","=","1">>,
    <<" ","w","h","e","r","e"," ","b">>,
    <<"d","e","l","e","t","e"," ","f","r","o","m"," ","t">> }

\* fragments of statements with explicit casts
CastFrags ==
  { <<"a">>,
    <<":",":","i","n","t",":",":","t","e","x","t">>,
    <<":",":","i","n","t">>,
    <<" ","o","r","d","e","r"," ","b","y"," ","a"," ","l","i","m","i","t"," ","1">>,
    <<"u","p","d","a","t","e"," ","t"," ","s","e","t"," ","a","=","1"," ","w","h","e","r","e"," ","b">>,
    <<" ","j","o","i","n"," ","u">> }

InputsOf(m) ==
  CASE m = "fmt" -> Texts(FmtFrags, MaxFrags)
    [] m = "lex" -> Texts(LexChars, MaxLen)
    [] m = "recon" -> Texts(ReconChars, MaxLen)
    [] m = "expr" -> ExprInputs
    [] m = "shape" -> ShapeInputs
    [] m = "dml" -> DmlInputs
    [] m = "star" -> Texts(StarFrags, MaxParts)
    [] m = "offset" -> Texts(OffsetFrags, MaxParts)
    [] m = "calls" -> CallInputs
    [] m = "server" -> Texts(ServerFrags, MaxParts)
    [] m = "cli" -> Texts(CliFrags, MaxParts)
    [] m = "clause" -> Texts(ClauseFrags, MaxParts)
    [] m = "dot" -> DotInputs
    [] m = "comment" -> Texts(CommentFrags, MaxParts)
    [] m = "lock" -> Texts(LockFrags, MaxParts)
    [] m = "cast" -> Texts(CastFrags, MaxParts)

CallLimit(m) == IF m = "calls" THEN MaxCalls ELSE 1

\* ------------------------------------------------------------------------
\* The calls: format(sql), then analyze(sql), as the callers make them
\* ------------------------------------------------------------------------

Locals ==
  [out |-> out, indent |-> indent, lineStart |-> lineStart,
   prevToken |-> prevToken, parenDepth |-> parenDepth]

SetLocals(F) ==
  /\ out' = F.out
  /\ indent' = F.indent
  /\ lineStart' = F.lineStart
  /\ prevToken' = F.prevToken
  /\ parenDepth' = F.parenDepth

\* a request body: json is whether JSON.parse accepts it, has is whether the
\* parsed object holds a string field sql
Body(json, has, text) == [json |-> json, has |-> has, sql |-> text]

NoRequest == Body(FALSE, FALSE, <<>>)

InitIn(m) ==
  /\ mode = m
  /\ calls = 0
  /\ log = {}
  /\ pc = "idle"
  /\ sql = <<>>
  /\ i = 0
  /\ tokens = <<>>
  /\ fi = 0
  /\ out = <<>>
  /\ indent = 0
  /\ lineStart = TRUE
  /\ prevToken = NoToken
  /\ parenDepth = 0
  /\ formatted = <<>>
  /\ findings = <<>>
  /\ request = NoRequest
  /\ responses = <<>>
  /\ stdout = <<>>
  /\ values = <<>>
  /\ types = <<>>
  /\ analysis = NoAnalysis
  /\ gen = NoGenerate

\* a caller calls format(sql): format calls tokenize(sql)
Call ==
  /\ pc \in {"idle", "done"}
  /\ calls < CallLimit(mode)
  /\ \E x \in InputsOf(mode) : sql' = x
  /\ calls' = calls + 1
  /\ log' = IF pc = "done"
            THEN log \cup {[sql |-> sql, formatted |-> formatted, findings |-> findings]}
            ELSE log
  /\ pc' = "tokenize"
  /\ i' = 0
  /\ tokens' = <<>>
  /\ UNCHANGED io
  /\ UNCHANGED sheet
  /\ UNCHANGED <<mode, fi, out, indent, lineStart, prevToken, parenDepth,
                 formatted, findings>>

\* one iteration of the scan loop of tokenize
ScanIteration ==
  /\ pc = "tokenize"
  /\ i < Len(sql)
  /\ LET r == ScanStep(sql, i)
     IN /\ i' = r.i
        /\ tokens' = tokens \o r.emit
  /\ UNCHANGED io
  /\ UNCHANGED sheet
  /\ UNCHANGED <<mode, calls, log, pc, sql, fi, out, indent, lineStart,
                 prevToken, parenDepth, formatted, findings>>

\* locals of which indent keeps the value an earlier call left
StaleLocalsAtEntry == [FormatInit EXCEPT !.indent = indent]

\* what the declarations of format bind its locals to, whatever an earlier
\* call left
FormatLocalsAtEntry == FormatInit

\* tokenize returns; format initialises its locals
FormatEnter ==
  /\ pc = "tokenize"
  /\ i >= Len(sql)
  /\ pc' = "format"
  /\ fi' = 0
  /\ SetLocals(FormatLocalsAtEntry)
  /\ UNCHANGED io
  /\ UNCHANGED sheet
  /\ UNCHANGED <<mode, calls, log, sql, i, tokens, formatted, findings>>

\* one iteration of the loop of format
FormatIteration ==
  /\ pc = "format"
  /\ fi < Len(tokens)
  /\ LET r == FormatToken(tokens, fi, Locals)
     IN /\ fi' = r.i
        /\ SetLocals(r.F)
  /\ UNCHANGED io
  /\ UNCHANGED sheet
  /\ UNCHANGED <<mode, calls, log, pc, sql, i, tokens, formatted, findings>>

\* format returns out.trim() + '\n'
FormatReturn ==
  /\ pc = "format"
  /\ fi >= Len(tokens)
  /\ formatted' = FormatResult(out)
  /\ pc' = "analyze"
  /\ UNCHANGED io
  /\ UNCHANGED sheet
  /\ UNCHANGED <<mode, calls, log, sql, i, tokens, fi, out, indent, lineStart,
                 prevToken, parenDepth, findings>>

\* the caller calls analyze(sql)
AnalyzeCall ==
  /\ pc = "analyze"
  /\ findings' = analyze(sql)
  /\ pc' = "done"
  /\ UNCHANGED io
  /\ UNCHANGED sheet
  /\ UNCHANGED <<mode, calls, log, sql, i, tokens, fi, out, indent, lineStart,
                 prevToken, parenDepth, formatted>>

\* ------------------------------------------------------------------------
\* The server's handler of POST /api/format
\* ------------------------------------------------------------------------

\* the bodies a request can carry: not JSON, JSON without sql, JSON with sql
Bodies(m) ==
  {Body(FALSE, FALSE, <<>>), Body(TRUE, FALSE, <<>>)}
    \cup {Body(TRUE, TRUE, x) : x \in InputsOf(m)}

Response(status, body) == [status |-> status, body |-> body]

NoSqlError == "No SQL provided"

ParseError == "err.message"

\* !sql for a missing or empty sql
Falsy(b) == ~b.has \/ b.sql = <<>>

\* the test without the trim
NoSqlProvidedNoTrim(b) == Falsy(b)

\* !sql || !sql.trim()
NoSqlProvided(b) == Falsy(b) \/ Trim(b.sql) = <<>>

\* a POST /api/format arrives and its body is read
Request ==
  /\ pc = "idle"
  /\ calls < CallLimit(mode)
  /\ \E b \in Bodies(mode) : request' = b
  /\ calls' = calls + 1
  /\ responses' = <<>>
  /\ pc' = "handler"
  /\ UNCHANGED sheet
  /\ UNCHANGED <<mode, log, sql, i, tokens, fi, out, indent, lineStart,
                 prevToken, parenDepth, formatted, findings, stdout>>

\* JSON.parse throws: the catch block answers 400 with the error's message
ParseFails ==
  /\ pc = "handler"
  /\ ~request.json
  /\ responses' = Append(responses, Response(400, [error |-> ParseError]))
  /\ pc' = "sent"
  /\ UNCHANGED sheet
  /\ UNCHANGED <<mode, calls, log, sql, i, tokens, fi, out, indent, lineStart,
                 prevToken, parenDepth, formatted, findings, request, stdout>>

\* sql is missing or blank: 400 and return
Reject ==
  /\ pc = "handler"
  /\ request.json
  /\ NoSqlProvided(request)
  /\ responses' = Append(responses, Response(400, [error |-> NoSqlError]))
  /\ pc' = "sent"
  /\ UNCHANGED sheet
  /\ UNCHANGED <<mode, calls, log, sql, i, tokens, fi, out, indent, lineStart,
                 prevToken, parenDepth, formatted, findings, request, stdout>>

\* the handler calls format(sql)
Accept ==
  /\ pc = "handler"
  /\ request.json
  /\ ~NoSqlProvided(request)
  /\ sql' = request.sql
  /\ pc' = "tokenize"
  /\ i' = 0
  /\ tokens' = <<>>
  /\ UNCHANGED sheet
  /\ UNCHANGED <<mode, calls, log, fi, out, indent, lineStart, prevToken,
                 parenDepth, formatted, findings, request, responses, stdout>>

\* analyze returned: 200 with the formatted text and the findings
Respond ==
  /\ pc = "done"
  /\ responses' =
       Append(responses,
              Response(200, [formatted |-> formatted, findings |-> findings]))
  /\ pc' = "sent"
  /\ UNCHANGED sheet
  /\ UNCHANGED <<mode, calls, log, sql, i, tokens, fi, out, indent, lineStart,
                 prevToken, parenDepth, formatted, findings, request, stdout>>

ServerNext ==
  \/ Request
  \/ ParseFails
  \/ Reject
  \/ Accept
  \/ ScanIteration
  \/ FormatEnter
  \/ FormatIteration
  \/ FormatReturn
  \/ AnalyzeCall
  \/ Respond

\* ------------------------------------------------------------------------
\* The command line's analyze mode
\* ------------------------------------------------------------------------

\* a finding's message with the value its template embeds
MessageText(f) == <<f.message>> \o f.arg

\* the label without the padding
PrefixUnpadded(level) ==
  IF level = "error" THEN <<"E","R","R","O","R">>
  ELSE IF level = "warn" THEN <<"W","A","R","N">>
  ELSE <<"I","N","F","O">>

\* f.level === 'error' ? 'ERROR' : f.level === 'warn' ? 'WARN ' : 'INFO '
Prefix(level) ==
  IF level = "error" THEN <<"E","R","R","O","R">>
  ELSE IF level = "warn" THEN <<"W","A","R","N"," ">>
  ELSE <<"I","N","F","O"," ">>

\* console.log(text) writes the text and a newline
ConsoleLog(text) == text \o <<"\n">>

AnalysisHeader(n) ==
  <<"\n","-","-"," ","A","n","a","l","y","s","i","s",":"," ">> \o NumberText(n) \o <<" ","f","i","n","d","i","n","g","(","s",")">>

NoIssues == <<"\n","-","-"," ","N","o"," ","i","s","s","u","e","s"," ","f","o","u","n","d",".">>

FindingLine(f) == <<"-","-"," ","[">> \o Prefix(f.level) \o <<"]"," ">> \o MessageText(f)

\* the chunks the analyze command writes for a formatted text and a finding list
Report(text, fs) ==
  <<text>> \o
  (IF Len(fs) > 0
   THEN <<ConsoleLog(AnalysisHeader(Len(fs)))>>
          \o [k \in 1..Len(fs) |-> ConsoleLog(FindingLine(fs[k]))]
   ELSE <<ConsoleLog(NoIssues)>>)

\* the analyze command writes the formatted text and the report
PrintReport ==
  /\ pc = "done"
  /\ stdout' = stdout \o Report(formatted, findings)
  /\ pc' = "printed"
  /\ UNCHANGED sheet
  /\ UNCHANGED <<mode, calls, log, sql, i, tokens, fi, out, indent, lineStart,
                 prevToken, parenDepth, formatted, findings, request,
                 responses>>

CliNext ==
  \/ Call
  \/ ScanIteration
  \/ FormatEnter
  \/ FormatIteration
  \/ FormatReturn
  \/ AnalyzeCall
  \/ PrintReport

\* ------------------------------------------------------------------------
\* The column analysis: values.map(detectType)
\* ------------------------------------------------------------------------

\* the successor and the predecessor of a number written in decimal digits
RECURSIVE DecSucc(_)
DecSucc(ds) ==
  IF ds = <<>> THEN <<"1">>
  ELSE LET last == DigitValue(ds[Len(ds)])
           front == SubSeq(ds, 1, Len(ds) - 1)
       IN IF last = 9 THEN DecSucc(front) \o <<"0">>
          ELSE front \o <<ToString(last + 1)>>

RECURSIVE DecPred(_)
DecPred(ds) ==
  LET last == DigitValue(ds[Len(ds)])
      front == SubSeq(ds, 1, Len(ds) - 1)
  IN IF last = 0 THEN DecPred(front) \o <<"9">>
     ELSE front \o <<ToString(last - 1)>>

DecPlus(ds, d) ==
  CASE d = -1 -> DecPred(ds)
    [] d = 0 -> ds
    [] d = 1 -> DecSucc(ds)
    [] d = 2 -> DecSucc(DecSucc(ds))

\* the largest magnitudes of the positive smallint, integer and bigint
\* values, after zero
RangeTops ==
  << <<"0">>, <<"3","2","7","6","7">>, <<"2","1","4","7","4","8","3","6","4","7">>,
     <<"9","2","2","3","3","7","2","0","3","6","8","5","4","7","7","5","8","0","7">> >>

\* integers at and around the ends of the ranges: the sign, the range top
\* the magnitude is counted from, the distance from it, and the way the
\* text is written (plain, with a leading zero, with spaces around)
IntegerCases ==
  { [neg |-> n, top |-> k, d |-> d, style |-> w] :
      n \in BOOLEAN, k \in 1..4, d \in -1..2, w \in {"plain", "zero", "spaces"} }
    \ { c \in [neg : BOOLEAN, top : {1}, d : {-1}, style : {"plain", "zero", "spaces"}] : TRUE }

IntegerText(c) ==
  LET digits == DecPlus(RangeTops[c.top], c.d)
      number == (IF c.neg THEN <<"-">> ELSE <<>>)
                  \o (IF c.style = "zero" THEN <<"0">> ELSE <<>>) \o digits
  IN IF c.style = "spaces" THEN <<" ">> \o number \o <<" ", "\n">> ELSE number

\* values that are not integers
OtherTexts ==
  { <<"t","r","u","e">>,
    <<"T">>,
    <<"y","e","s">>,
    <<"1",".","5">>,
    <<"-","0",".","0">>,
    <<"1","e","5">>,
    <<"a","b","c">>,
    <<>>,
    <<" "," ">>,
    <<"0","x","1","0">>,
    <<"-","-","1">>,
    <<"1","-","1">>,
    <<"1","2","3","e","4","5","6","7","-","e","8","9","b","-","1","2","d","3","-","a","4","5","6","-","4","2","6","6","1","4","1","7","4","0","0","0">>,
    <<"2","0","2","4","-","0","1","-","1","5">>,
    <<"2","0","2","4","-","1","3","-","1","5">>,
    <<"2","0","2","4","-","0","1","-","1","5"," ","1","0",":","3","0">>,
    <<"2","0","2","4","-","0","1","-","1","5","T","1","0",":","3","0",":","0","0",".","5","Z">>,
    <<"[","1","]">>,
    <<"{","1","}">> }

DetectColumns ==
  {<<Cell(IntegerText(c))>> : c \in IntegerCases}
    \cup {<<Cell(x)>> : x \in OtherTexts} \cup {<<NullCell>>}

\* sample values of every type that resolveType tells apart
ResolveCells ==
  { Cell(<<"t","r","u","e">>), Cell(<<"1">>), Cell(<<"7","0","0","0","0">>), Cell(<<"3","0","0","0","0","0","0","0","0","0">>), Cell(<<"1",".","5">>),
    Cell(<<"2","0","2","4","-","0","1","-","1","5">>), Cell(<<"2","0","2","4","-","0","1","-","1","5"," ","1","0",":","3","0">>),
    Cell(<<"2","0","2","4","-","0","1","-","1","5","T","1","0",":","3","0",":","0","0","Z">>), Cell(<<"a","b","c">>),
    NullCell }

\* the columns of at most n sample values
RECURSIVE Columns(_, _)
Columns(cells, n) ==
  IF n = 0 THEN {<<>>}
  ELSE LET shorter == Columns(cells, n - 1)
       IN shorter \cup {Append(c, v) : c \in shorter, v \in cells}

ColumnsOf(m) ==
  CASE m = "detect" -> DetectColumns
    [] m = "resolve" -> Columns(ResolveCells, MaxParts)
    [] OTHER -> {}

\* analyzeColumn is called with the values of a column
ReadColumn ==
  /\ pc = "idle"
  /\ \E c \in ColumnsOf(mode) : values' = c
  /\ types' = <<>>
  /\ analysis' = NoAnalysis
  /\ pc' = IF values' = <<>> THEN "detected" ELSE "detect"
  /\ UNCHANGED io
  /\ UNCHANGED <<mode, calls, log, sql, i, tokens, fi, out, indent, lineStart,
                 prevToken, parenDepth, formatted, findings>>
  /\ UNCHANGED gen

\* the next step of values.map(detectType)
DetectValue ==
  /\ pc = "detect"
  /\ Len(types) < Len(values)
  /\ types' = Append(types, detectType(values[Len(types) + 1]))
  /\ pc' = IF Len(types) + 1 = Len(values) THEN "detected" ELSE "detect"
  /\ UNCHANGED io
  /\ UNCHANGED <<mode, calls, log, sql, i, tokens, fi, out, indent, lineStart,
                 prevToken, parenDepth, formatted, findings, values, analysis>>
  /\ UNCHANGED gen

\* the rest of analyzeColumn: the null count, the resolved type, the
\* uniqueness test and the record returned
ResolveColumn ==
  /\ pc = "detected"
  /\ analysis' = ColumnAnalysis(values, types)
  /\ pc' = "analyzed"
  /\ UNCHANGED io
  /\ UNCHANGED <<mode, calls, log, sql, i, tokens, fi, out, indent, lineStart,
                 prevToken, parenDepth, formatted, findings, values, types>>
  /\ UNCHANGED gen

SheetNext ==
  \/ ReadColumn
  \/ DetectValue
  \/ ResolveColumn

\* ------------------------------------------------------------------------
\* The generator: generateDDL(tableName, headers, rows, options)
\* ------------------------------------------------------------------------

\* headers of an imported sheet
Headers ==
  { <<"i","d">>,
    <<"I","D">>,
    <<"a"," ","b">>,
    <<"a","-","b">>,
    <<"1">>,
    <<"u","s","e","r">>,
    <<>> }

\* the lists of at most n distinct headers
RECURSIVE HeaderLists(_)
HeaderLists(n) ==
  IF n = 0 THEN {<<>>}
  ELSE LET shorter == HeaderLists(n - 1)
       IN shorter \cup UNION { {Append(hs, h) : h \in Headers \ {hs[k] : k \in 1..Len(hs)}} :
                                hs \in shorter }

\* the rows of a sheet with the headers hs: none, or one row with the same
\* value in every column
RowsOf(hs) ==
  {<<>>} \cup
  { <<[h \in {hs[k] : k \in 1..Len(hs)} |-> v]>> :
      v \in {NullCell, Cell(<<"1","2","3","e","4","5","6","7","-","e","8","9","b","-","1","2","d","3","-","a","4","5","6","-","4","2","6","6","1","4","1","7","4","0","0","0">>)} }

\* generateDDL is called; its defaults and empty locals
GenerateCall ==
  /\ pc = "idle"
  /\ mode = "generate"
  /\ \E hs \in HeaderLists(MaxParts) : \E rs \in RowsOf(hs) : \E id, ix \in BOOLEAN :
       gen' = [ tableName |-> <<"u", "s", "e", "r">>, headers |-> hs, rows |-> rs,
                addId |-> id, includeIndexes |-> ix,
                columns |-> <<>>, indexes |-> <<>>, colMeta |-> <<>>, ddl |-> NoDDL ]
  /\ pc' = "generate"
  /\ UNCHANGED io
  /\ UNCHANGED <<mode, calls, log, sql, i, tokens, fi, out, indent, lineStart,
                 prevToken, parenDepth, formatted, findings, values, types, analysis>>

\* one iteration of the loop over the headers
GenerateColumn ==
  /\ pc = "generate"
  /\ Len(gen.columns) < Len(gen.headers)
  /\ LET header == gen.headers[Len(gen.columns) + 1]
         colName == sanitizeName(header)
         column == [k \in 1..Len(gen.rows) |-> gen.rows[k][header]]
         result == analyzeColumn(column)
         def == [name |-> colName, pgType |-> result.pgType, notNull |-> ~result.nullable]
         index == [unique |-> result.isUnique, table |-> sanitizeName(gen.tableName),
                   column |-> colName]
     IN gen' = [gen EXCEPT
                  !.colMeta = Append(@, [header |-> header, colName |-> colName,
                                         analysis |-> result]),
                  !.columns = Append(@, def),
                  !.indexes = IF gen.includeIndexes /\ result.pgType = "uuid"
                              THEN Append(@, index) ELSE @]
  /\ UNCHANGED io
  /\ UNCHANGED <<mode, calls, log, pc, sql, i, tokens, fi, out, indent, lineStart,
                 prevToken, parenDepth, formatted, findings, values, types, analysis>>

\* after the loop: the identity column is decided and the statement built
GenerateReturn ==
  /\ pc = "generate"
  /\ Len(gen.columns) = Len(gen.headers)
  /\ LET colNames == {gen.colMeta[k].colName : k \in 1..Len(gen.colMeta)}
         shouldAddId == gen.addId /\ <<"i", "d">> \notin colNames
     IN gen' = [gen EXCEPT !.ddl = [ tbl |-> sanitizeName(gen.tableName),
                                      id |-> shouldAddId,
                                      columns |-> gen.columns,
                                      indexes |-> gen.indexes ]]
  /\ pc' = "generated"
  /\ UNCHANGED io
  /\ UNCHANGED <<mode, calls, log, sql, i, tokens, fi, out, indent, lineStart,
                 prevToken, parenDepth, formatted, findings, values, types, analysis>>

GenerateNext ==
  \/ GenerateCall
  \/ GenerateColumn
  \/ GenerateReturn

Next ==
  \/ Call
  \/ ScanIteration
  \/ FormatEnter
  \/ FormatIteration
  \/ FormatReturn
  \/ AnalyzeCall

\* formatter inputs
Init == InitIn("fmt")

Spec == Init /\ [][Next]_vars

\* lexer inputs
InitLex == InitIn("lex")

SpecLex == InitLex /\ [][Next]_vars

InitRecon == InitIn("recon")

SpecRecon == InitRecon /\ [][Next]_vars

InitExpr == InitIn("expr")

SpecExpr == InitExpr /\ [][Next]_vars

InitShape == InitIn("shape")

SpecShape == InitShape /\ [][Next]_vars

InitDml == InitIn("dml")

SpecDml == InitDml /\ [][Next]_vars

InitStar == InitIn("star")

SpecStar == InitStar /\ [][Next]_vars

InitOffset == InitIn("offset")

SpecOffset == InitOffset /\ [][Next]_vars

InitCalls == InitIn("calls")

SpecCalls == InitCalls /\ [][Next]_vars

\* requests to the server
InitServer == InitIn("server")

SpecServer == InitServer /\ [][ServerNext]_vars

\* runs of the command line's analyze mode
InitCli == InitIn("cli")

SpecCli == InitCli /\ [][CliNext]_vars

\* columns given to the type detector
InitDetect == InitIn("detect")

SpecDetect == InitDetect /\ [][SheetNext]_vars

\* clause keywords
InitClause == InitIn("clause")

SpecClause == InitClause /\ [][Next]_vars

\* qualified names
InitDot == InitIn("dot")

SpecDot == InitDot /\ [][Next]_vars

\* comments
InitComment == InitIn("comment")

SpecComment == InitComment /\ [][Next]_vars

InitLock == InitIn("lock")

SpecLock == InitLock /\ [][Next]_vars

InitCast == InitIn("cast")

SpecCast == InitCast /\ [][Next]_vars

InitResolve == InitIn("resolve")

SpecResolve == InitResolve /\ [][SheetNext]_vars

InitGenerate == InitIn("generate")

SpecGenerate == InitGenerate /\ [][GenerateNext]_vars

\* ------------------------------------------------------------------------
\* Properties
\* ------------------------------------------------------------------------

TypeOK ==
  /\ pc \in {"idle", "handler", "tokenize", "format", "analyze", "done",
            "sent", "printed", "detect", "detected", "analyzed",
            "generate", "generated"}
  /\ calls \in 0..CallLimit(mode)
  /\ i >= 0
  /\ fi >= 0
  /\ lineStart \in BOOLEAN

\* the stepped run computes what the functions return
RunsAgree ==
  /\ pc \in {"format", "analyze", "done"} => tokens = tokenize(sql)
  /\ pc \in {"analyze", "done"} => formatted = format(sql)

\* a text with no ; separating statements: no ; token before the last token
SingleStatement(s) ==
  LET toks == tokenize(s)
  IN \A k \in 1..(Len(toks) - 1) : ~IsSymbol(toks[k], ";")

\* C1: format is idempotent: for every single-statement input x,
\* format(format(x)) is character for character format(x).
C1_Idempotence ==
  pc = "done" /\ SingleStatement(sql) => format(formatted) = formatted

\* the character at k starts none of the forms tokenize recognises
Unrecognized(s, k) ==
  LET c == CharAt(s, k)
      c1 == CharAt(s, k + 1)
  IN /\ c \notin Whitespace \cup Digits \cup WordStart \cup {"'", "\""}
     /\ ~(c = "-" /\ c1 = "-")
     /\ ~(c = "/" /\ c1 = "*")
     /\ ~(c = "." /\ c1 \in Digits)
     /\ ~(c = "$" /\ DollarEnd(s, k) # -1)
     /\ Slice(s, k, k + 2) \notin TwoCharOps
     /\ Slice(s, k, k + 3) # <<"-", ">", ">">>

\* the loops advance: every iteration of the scan loop strictly increases
\* the scan index and stays within one step of the end of the input, pushing
\* a one-character symbol token for a character that starts no other form;
\* every iteration of the loop of format strictly increases its index
LoopsAdvance ==
  /\ pc = "tokenize" /\ pc' = "tokenize" =>
       /\ i' > i
       /\ Unrecognized(sql, i) =>
            /\ tokens' = Append(tokens, Token("symbol", <<CharAt(sql, i)>>))
            /\ i' = i + 1
  /\ pc = "format" /\ pc' = "format" => fi' > fi /\ fi' <= Len(tokens)

\* C2: tokenize is total and terminates: every iteration of the scan loop
\* strictly increases the scan index (the loop runs while the index is below
\* the length of the input, so it ends), also in an unterminated comment,
\* string or quoted identifier and at an unmatched $tag$; a character
\* matching no other form is pushed as a one-character symbol token; the
\* loop of format advances through the tokens in the same way.
C2_Termination == [][LoopsAdvance]_vars

\* a call has returned for an input that ends in an unterminated block comment
C2_Witness ==
  /\ pc = "done"
  /\ Len(tokens) > 0
  /\ LET t == tokens[Len(tokens)]
     IN /\ t.type = "comment"
        /\ t.value[1] = "/"
        /\ ~(Len(t.value) >= 4 /\ Slice(t.value, Len(t.value) - 2, Len(t.value)) = <<"*", "/">>)

\* the positions of the keyword tokens kw that no WHERE keyword follows
\* before the next ; or the end of the input
Unguarded(toks, kw) ==
  { p \in 1..Len(toks) :
      /\ IsKeyword(toks[p], kw)
      /\ ~\E q \in (p + 1)..Len(toks) :
            /\ IsKeyword(toks[q], kwWHERE)
            /\ \A r \in (p + 1)..(q - 1) : ~IsSymbol(toks[r], ";") }

\* a statement (the first, or one after a ;) begins with the keyword kw and
\* has no WHERE keyword
TopLevelOffender(toks, kw) ==
  \E p \in Unguarded(toks, kw) : p = 1 \/ IsSymbol(toks[p - 1], ";")

ErrorFindings(fs) == SelectSeq(fs, LAMBDA f : f.level = "error")

CountOf(fs, level, message) ==
  Cardinality({k \in 1..Len(fs) : fs[k].level = level /\ fs[k].message = message})

\* C3 as stated: an input with a top-level UPDATE or DELETE statement without
\* WHERE yields exactly one error finding, which names the statement kind.
C3_ExactlyOneError ==
  pc = "done" /\ (TopLevelOffender(tokens, kwUPDATE) \/ TopLevelOffender(tokens, kwDELETE)) =>
    /\ Len(ErrorFindings(findings)) = 1
    /\ ErrorFindings(findings)[1].message = UpdateMessage => TopLevelOffender(tokens, kwUPDATE)
    /\ ErrorFindings(findings)[1].message = DeleteMessage => TopLevelOffender(tokens, kwDELETE)

\* C3 amended: analyze returns exactly one error finding for each UPDATE or
\* DELETE keyword that no WHERE keyword follows before the next ; or the end
\* of the input, naming the kind of that keyword, and no other error finding.
C3_OneErrorPerStatement ==
  pc = "done" =>
    /\ CountOf(findings, "error", UpdateMessage) = Cardinality(Unguarded(tokens, kwUPDATE))
    /\ CountOf(findings, "error", DeleteMessage) = Cardinality(Unguarded(tokens, kwDELETE))
    /\ \A k \in 1..Len(findings) :
         findings[k].level = "error" => findings[k].message \in {UpdateMessage, DeleteMessage}

\* analyze has returned for a script of an UPDATE and a DELETE statement,
\* both without WHERE, where another statement of the script has a WHERE
C3_Witness ==
  /\ pc = "done"
  /\ TopLevelOffender(tokens, kwUPDATE)
  /\ TopLevelOffender(tokens, kwDELETE)
  /\ Len(ErrorFindings(findings)) = 2

\* the text ends with exactly one newline and the character before that
\* newline, if any, is not whitespace
OneTrailingNewline(text) ==
  /\ Len(text) >= 1
  /\ text[Len(text)] = "\n"
  /\ Len(text) >= 2 => text[Len(text) - 1] \notin Whitespace

\* C4 as stated: for every input, also an empty or whitespace-only one, the
\* text format returns ends with exactly one newline after a character that
\* is not whitespace, and does not begin with whitespace.
C4_TrimmedOutput ==
  pc = "done" => OneTrailingNewline(formatted) /\ formatted[1] \notin Whitespace

\* C4 amended: for every input the text format returns ends with exactly one
\* newline after a character that is not whitespace; it does not begin with
\* whitespace when the input holds a token, and it is the single newline
\* when the input holds none (an empty or whitespace-only input).
C4_TrimmedOutputOrNewline ==
  pc = "done" =>
    /\ OneTrailingNewline(formatted)
    /\ tokens # <<>> => formatted[1] \notin Whitespace
    /\ tokens = <<>> => formatted = <<"\n">>

\* format has returned after building an output with whitespace at both ends
C4_Witness ==
  /\ pc = "done"
  /\ Len(out) >= 3
  /\ out[1] \in Whitespace
  /\ out[Len(out)] \in Whitespace
  /\ Len(formatted) >= 2

\* the number of the first n tokens that are the symbol ch
SymbolCount(toks, n, ch) == Cardinality({k \in 1..n : IsSymbol(toks[k], ch)})

\* C5: during a format run over any token sequence, also one with more )
\* than (, parenDepth >= 0 and indent >= 0 after every token.
C5_NonNegative == parenDepth >= 0 /\ indent >= 0

\* format has just processed a ) that no ( matches, after a LIMIT keyword
\* while indent was 0
C5_Witness ==
  /\ pc = "format"
  /\ fi >= 2
  /\ IsSymbol(tokens[fi], ")")
  /\ IsKeyword(tokens[fi - 1], kwLIMIT)
  /\ SymbolCount(tokens, fi, ")") > SymbolCount(tokens, fi, "(")
  /\ parenDepth = 0
  /\ indent = 0

\* C6: determinism and call isolation: in any sequence of calls, the result
\* of a call depends only on that call's input: it equals the result of
\* every earlier call on the same input, whatever calls came in between,
\* and the text is the function format of the input alone.
C6_Determinism ==
  pc = "done" =>
    /\ \A r \in log :
         r.sql = sql => r.formatted = formatted /\ r.findings = findings
    /\ formatted = format(sql)

\* the third call has returned, on the input of an earlier call, with a call
\* on another input, which left indent above 0, also made before it
C6_Witness ==
  /\ pc = "done"
  /\ calls = 3
  /\ \E r \in log : r.sql = sql
  /\ \E r \in log : r.sql = <<"(", "s", "e", "l", "e", "c", "t">>
  /\ sql = <<"a", ",", "b">>

\* the lines of a text: the runs between its newlines
RECURSIVE Lines(_)
Lines(text) ==
  LET nl == IndexOf(text, <<"\n">>, 0)
  IN IF nl = -1 THEN <<text>>
     ELSE <<Slice(text, 0, nl)>> \o Lines(Slice(text, nl + 1, Len(text)))

\* line k holds the item alone, but for the comma that follows it
OwnLine(lines, k, item) == Trim(lines[k]) \in {item, item \o <<",">>}

\* C7: for an input select <item>,<item> from <table> where <cond>, format
\* places SELECT, FROM and WHERE at the start of separate lines and each
\* item of the select list, the first as well as the second, on a line of
\* its own between the SELECT line and the FROM line.
C7_ItemPerLine ==
  pc = "done" =>
    LET lines == Lines(formatted)
        n == Len(lines)
    IN \E a \in 1..n, b \in 1..n, c \in 1..n :
         /\ a < b /\ b < c
         /\ StartsAt(lines[a], kwSELECT, 0)
         /\ StartsAt(lines[b], <<"F","R","O","M">>, 0)
         /\ StartsAt(lines[c], kwWHERE, 0)
         /\ \E j \in (a + 1)..(b - 1), k \in (a + 1)..(b - 1) :
              /\ j < k
              /\ OwnLine(lines, j, tokens[2].value)
              /\ OwnLine(lines, k, tokens[4].value)

\* the positions of the SELECT keywords followed, after an optional
\* DISTINCT keyword, directly by the symbol *
WildcardSelects(toks) ==
  { p \in 1..Len(toks) :
      /\ IsKeyword(toks[p], kwSELECT)
      /\ \/ p + 1 <= Len(toks) /\ IsSymbol(toks[p + 1], "*")
         \/ /\ p + 2 <= Len(toks)
            /\ IsKeyword(toks[p + 1], kwDISTINCT)
            /\ IsSymbol(toks[p + 2], "*") }

\* SELECT id FROM t, SELECT count(*) FROM t, SELECT t.* FROM t
NoWildcardExamples ==
  { <<"s","e","l","e","c","t"," ","i","d"," ","f","r","o","m"," ","t"," ">>,
    <<"s","e","l","e","c","t"," ","c","o","u","n","t","(","*",")"," ","f","r","o","m"," ","t"," ">>,
    <<"s","e","l","e","c","t"," ","t",".","*"," ","f","r","o","m"," ","t"," ">> }

\* C8: analyze returns one warn wildcard-projection finding for each SELECT
\* keyword followed, after an optional DISTINCT, directly by the symbol *,
\* and no other: inputs such as SELECT id FROM t, SELECT count(*) FROM t and
\* SELECT t.* FROM t produce none.
C8_WildcardIff ==
  pc = "done" =>
    /\ CountOf(findings, "warn", SelectStarMessage) = Cardinality(WildcardSelects(tokens))
    /\ \A k \in 1..Len(findings) :
         findings[k].message = SelectStarMessage => findings[k].level = "warn"
    /\ sql \in NoWildcardExamples => CountOf(findings, "warn", SelectStarMessage) = 0

\* analyze has returned its wildcard finding for SELECT DISTINCT *
C8_Witness ==
  /\ pc = "done"
  /\ Len(tokens) = 3
  /\ IsKeyword(tokens[1], kwSELECT)
  /\ IsKeyword(tokens[2], kwDISTINCT)
  /\ IsSymbol(tokens[3], "*")
  /\ CountOf(findings, "warn", SelectStarMessage) = 1

\* analyze has returned for one of the inputs without a wildcard projection
C8_NoWildcardReached == pc = "done" /\ sql \in NoWildcardExamples

\* the positions of the OFFSET keywords followed by an integer literal
\* greater than 1000
LargeOffsets(toks) ==
  { p \in 1..(Len(toks) - 1) :
      /\ IsKeyword(toks[p], kwOFFSET)
      /\ toks[p + 1].type = "number"
      /\ \A k \in 1..Len(toks[p + 1].value) : toks[p + 1].value[k] \in Digits
      /\ ParseInt(toks[p + 1].value) > OffsetLimit }

\* C9: for every input with the keyword OFFSET followed by an integer literal
\* greater than 1000, wherever it occurs, also after an earlier OFFSET of at
\* most 1000, analyze returns a warn finding whose message embeds the digits
\* of that literal.
C9_LargeOffsetFlagged ==
  pc = "done" =>
    \A p \in LargeOffsets(tokens) :
      \E k \in 1..Len(findings) :
        /\ findings[k].level = "warn"
        /\ findings[k].message = OffsetMessage
        /\ findings[k].arg = tokens[p + 1].value

NoCommentsOrStrings(toks) ==
  \A k \in 1..Len(toks) : toks[k].type \notin {"comment", "string"}

\* the characters of the token values in order, each with whether it comes
\* from a keyword token (whose value is upper-cased)
RECURSIVE ValueChars(_)
ValueChars(toks) ==
  IF toks = <<>> THEN <<>>
  ELSE [k \in 1..Len(toks[1].value) |->
          [ch |-> toks[1].value[k], kw |-> toks[1].type = "keyword"]]
       \o ValueChars(Tail(toks))

StripWhitespace(s) == SelectSeq(s, LAMBDA c : c \notin Whitespace)

\* the value characters are the text, character by character, keyword
\* characters up to case
SameStream(vals, text) ==
  /\ Len(vals) = Len(text)
  /\ \A k \in 1..Len(vals) :
       IF vals[k].kw THEN vals[k].ch = UpperChar(text[k]) ELSE vals[k].ch = text[k]

IsQuotedIdentifier(t) == t.type = "identifier" /\ t.value[1] = "\""

\* C10 as stated: for an input free of comments and string literals, the
\* concatenation of the token values equals the input with its whitespace
\* removed, keywords compared case-insensitively.
C10_Reconstruction ==
  pc = "done" /\ NoCommentsOrStrings(tokens) =>
    SameStream(ValueChars(tokens), StripWhitespace(sql))

\* C10 amended: for an input free of comments and string literals, the
\* concatenation of the token values, with the whitespace that quoted
\* identifiers keep removed, equals the input with its whitespace removed,
\* keywords compared case-insensitively; only quoted identifiers hold
\* whitespace; no non-whitespace character is dropped, duplicated or
\* reordered.
C10_ReconstructionModuloQuoted ==
  pc = "done" /\ NoCommentsOrStrings(tokens) =>
    /\ SameStream(SelectSeq(ValueChars(tokens), LAMBDA v : v.ch \notin Whitespace),
                  StripWhitespace(sql))
    /\ \A k \in 1..Len(tokens) :
         (\E c \in 1..Len(tokens[k].value) : tokens[k].value[c] \in Whitespace)
           => IsQuotedIdentifier(tokens[k])

\* tokenize has returned a closed quoted identifier that holds whitespace
C10_Witness ==
  /\ pc = "done"
  /\ NoCommentsOrStrings(tokens)
  /\ \E k \in 1..Len(tokens) :
       /\ IsQuotedIdentifier(tokens[k])
       /\ tokens[k].value = <<"\"", " ", "\"">>


\* the handler is past the guard and in the format/analyze path
InFormatPath == pc \in {"tokenize", "format", "analyze", "done"}

\* C11: for every POST to /api/format whose body is JSON, the server sends
\* exactly one response: 400 with an error field when sql is missing, empty
\* or whitespace-only, and otherwise 200 with formatted = format(sql) and
\* findings = analyze(sql); the format/analyze path is never entered for a
\* missing or blank sql, and nothing is sent before the handler finishes.
C11_OneResponse ==
  /\ pc = "sent" => Len(responses) = 1
  /\ pc # "sent" => responses = <<>>
  /\ InFormatPath =>
       request.json /\ request.has /\ Trim(request.sql) # <<>>
  /\ pc = "sent" /\ request.json =>
       LET r == responses[1]
       IN IF ~request.has \/ Trim(request.sql) = <<>>
          THEN r.status = 400 /\ DOMAIN r.body = {"error"}
          ELSE /\ r.status = 200
               /\ DOMAIN r.body = {"formatted", "findings"}
               /\ r.body.formatted = format(request.sql)
               /\ r.body.findings = analyze(request.sql)

\* a request with a statement was answered 200 with a finding
C11_Witness ==
  /\ pc = "sent"
  /\ request.json /\ request.has /\ Trim(request.sql) # <<>>
  /\ responses[1].status = 200
  /\ Len(responses[1].body.findings) > 0


RECURSIVE Concat(_)
Concat(chunks) ==
  IF chunks = <<>> THEN <<>> ELSE Head(chunks) \o Concat(Tail(chunks))

IsCommentLine(line) == StartsAt(line, <<"-", "-">>, 0)

\* the comment lines of what was written after the formatted text
ReportLines == SelectSeq(Lines(Concat(Tail(stdout))), IsCommentLine)

\* the lines of what was written after the formatted text that are not empty
ReportNonEmptyLines ==
  SelectSeq(Lines(Concat(Tail(stdout))), LAMBDA l : l # <<>>)

\* the label of a level, as the specification writes it
Label(level) ==
  IF level = "error" THEN <<"E","R","R","O","R">>
  ELSE IF level = "warn" THEN <<"W","A","R","N">>
  ELSE <<"I","N","F","O">>

\* C12 (as stated): in analyze mode, after the formatted text, the output
\* holds exactly one comment line per finding, of the exact form
\* -- [ERROR] <message>, -- [WARN] <message> or -- [INFO] <message> by the
\* finding's level and in finding order, or the single line
\* -- No issues found. when there is no finding.
C12_OneLinePerFinding ==
  pc = "printed" =>
    /\ stdout[1] = formatted
    /\ ReportLines =
         IF findings = <<>>
         THEN <<<<"-","-"," ","N","o"," ","i","s","s","u","e","s"," ","f","o","u","n","d",".">>>>
         ELSE [k \in 1..Len(findings) |->
                 <<"-","-"," ","[">> \o Label(findings[k].level) \o <<"]"," ">>
                   \o MessageText(findings[k])]

\* C12 (amended): after the formatted text the output holds an empty line
\* and then, when there is no finding, the single line -- No issues found.,
\* and otherwise the line -- Analysis: <n> finding(s) followed by one line
\* per finding, in finding order, of the form -- [ERROR] <message>,
\* -- [WARN ] <message> or -- [INFO ] <message> (WARN and INFO padded with a
\* space to the width of ERROR).
C12_HeaderAndPaddedLines ==
  pc = "printed" =>
    /\ stdout[1] = formatted
    /\ Head(Lines(Concat(Tail(stdout)))) = <<>>
    /\ ReportNonEmptyLines =
         IF findings = <<>>
         THEN <<<<"-","-"," ","N","o"," ","i","s","s","u","e","s"," ","f","o","u","n","d",".">>>>
         ELSE <<<<"-","-"," ","A","n","a","l","y","s","i","s",":"," ">> \o NumberText(Len(findings)) \o <<" ","f","i","n","d","i","n","g","(","s",")">>>>
              \o [k \in 1..Len(findings) |->
                   <<"-","-"," ","[">>
                     \o (CASE findings[k].level = "error" -> <<"E","R","R","O","R">>
                            [] findings[k].level = "warn" -> <<"W","A","R","N"," ">>
                            [] findings[k].level = "info" -> <<"I","N","F","O"," ">>)
                     \o <<"]"," ">> \o MessageText(findings[k])]

\* a report with an error, a warning and an info finding was written
C12_Witness ==
  /\ pc = "printed"
  /\ \E a, b, c \in 1..Len(findings) :
       /\ findings[a].level = "error"
       /\ findings[b].level = "warn"
       /\ findings[c].level = "info"


\* the place of a finding's rule in the order analyze evaluates the rules
RuleRank(f) ==
  CASE f.message = SelectStarMessage -> 1
    [] f.message \in {UpdateMessage, DeleteMessage} -> 2
    [] f.message = LikeMessage -> 3
    [] f.message = NotInMessage -> 4
    [] f.message = OrderByMessage -> 5
    [] f.message = CastMessage -> 6
    [] f.message = OffsetMessage -> 7
    [] f.message = JoinMessage -> 8
    [] f.message = NowMessage -> 9
    [] f.message = CoalesceMessage -> 10

\* the UPDATE and DELETE keywords without WHERE, in input order
OffendersInOrder(toks) ==
  SelectSeq([k \in 1..Len(toks) |-> k],
            LAMBDA p : p \in Unguarded(toks, kwUPDATE) \cup Unguarded(toks, kwDELETE))

\* C13: the findings analyze returns are ordered by rule in rule-evaluation
\* order and, within a rule, in the order of the triggering matches in the
\* input; within the UPDATE/DELETE rule the error findings follow the order
\* of the offending statements in the input, whichever kind comes first.
C13_FindingOrder ==
  pc = "done" =>
    /\ \A a, b \in 1..Len(findings) :
         a < b => RuleRank(findings[a]) <= RuleRank(findings[b])
    /\ LET errs == ErrorFindings(findings)
           offs == OffendersInOrder(tokens)
       IN /\ Len(errs) = Len(offs)
          /\ \A k \in 1..Len(errs) :
               errs[k].message =
                 IF IsKeyword(tokens[offs[k]], kwUPDATE)
                 THEN UpdateMessage ELSE DeleteMessage


\* the place of a type in the chain smallint, integer, bigint, numeric
IntegerChain == <<"smallint", "integer", "bigint", "numeric">>

\* the type the ranges give an integer case: a positive magnitude at most a
\* range top is within that range, a negative one may exceed the top by one
ExpectedType(c) ==
  LET slack == IF c.neg THEN 1 ELSE 0
  IN IF c.top = 1 THEN IntegerChain[1]
     ELSE IF c.d <= slack THEN IntegerChain[c.top - 1]
     ELSE IntegerChain[c.top]

\* C14: an integer-looking value is classified smallint iff it lies in
\* [-32768, 32767], integer iff it lies in the 32-bit signed range outside
\* that, bigint iff it lies in the 64-bit signed range outside the 32-bit
\* range, and numeric outside the 64-bit range; 0 and 1 are never boolean;
\* a value that is not integer-looking gets none of the integer types.
C14_IntegerRanges ==
  pc = "detected" =>
    /\ \A c \in IntegerCases :
         values[1] = Cell(IntegerText(c)) => types[1] = ExpectedType(c)
    /\ values[1] \in {Cell(<<"0">>), Cell(<<"1">>)} => types[1] = "smallint"
    /\ (\A c \in IntegerCases : values[1] # Cell(IntegerText(c))) =>
         types[1] \notin {"smallint", "integer", "bigint"}

\* the smallest smallint was classified
C14_Witness ==
  /\ pc = "detected"
  /\ values[1] = Cell(<<"-","3","2","7","6","8">>)
  /\ types[1] = "smallint"


\* the clause keyword format processes at token k: the two-word phrase its
\* lookahead detects, or the single word of the clause set; <<>> for none
ClauseAt(toks, k) ==
  LET t == TokenAt(toks, k)
  IN IF Compound(toks, k) # <<>> THEN Compound(toks, k)
     ELSE IF t.type = "keyword" /\ t.value \in CLAUSE_KEYWORDS THEN t.value
     ELSE <<>>

EndsWithText(text, suffix) ==
  /\ Len(text) >= Len(suffix)
  /\ SubSeq(text, Len(text) - Len(suffix) + 1, Len(text)) = suffix

LineBreaks(text) == Cardinality({k \in 1..Len(text) : text[k] = "\n"})

ClauseStep ==
  pc = "format" /\ fi < Len(tokens) /\ ClauseAt(tokens, fi) # <<>> =>
    LET kw == ClauseAt(tokens, fi)
        lead == Repeat(<<" ", " ">>, indent')
                  \o (IF kw \in AndOr THEN <<" ", " ">> ELSE <<>>)
    IN IF parenDepth = 0
       THEN EndsWithText(out', <<"\n">> \o lead \o kw)
       ELSE LineBreaks(out') = LineBreaks(out) /\ EndsWithText(out', kw)

\* C15: whenever format processes a clause keyword (a single word of the
\* clause set or a two-word phrase found by lookahead) while parenDepth is
\* 0, the keyword is written as the first text of a new line after exactly
\* 2*indent spaces, AND and OR after two more; while parenDepth > 0 no line
\* break is written for it.
C15_ClauseOnNewLine == [][ClauseStep]_vars

\* AND was written on a new line at indent 1 and paren depth 0
C15_Witness ==
  /\ pc = "format"
  /\ indent = 1
  /\ parenDepth = 0
  /\ IsKeyword(prevToken, <<"A", "N", "D">>)
  /\ EndsWithText(out, <<"\n", " ", " ", " ", " ", "A", "N", "D">>)


\* the three keywords from token k on as one phrase, <<>> when there are not
\* three keywords there
ThreeWordsAt(toks, k) ==
  LET a == TokenAt(toks, k)
      b == TokenAt(toks, k + 1)
      c == TokenAt(toks, k + 2)
  IN IF a.type = "keyword" /\ b.type = "keyword" /\ c.type = "keyword"
     THEN a.value \o <<" ">> \o b.value \o <<" ">> \o c.value
     ELSE <<>>

IsJoinVariant(p) ==
  p \in CLAUSE_KEYWORDS /\ EndsWithText(p, <<"J", "O", "I", "N">>)

\* the join variant of the clause set that begins at token k, the longest
\* first, with the number of its words; <<>> when none begins there
JoinVariantAt(toks, k) ==
  IF IsJoinVariant(ThreeWordsAt(toks, k))
  THEN [phrase |-> ThreeWordsAt(toks, k), words |-> 3]
  ELSE IF IsJoinVariant(Compound(toks, k))
  THEN [phrase |-> Compound(toks, k), words |-> 2]
  ELSE IF IsKeyword(TokenAt(toks, k), kwJOIN)
  THEN [phrase |-> kwJOIN, words |-> 1]
  ELSE [phrase |-> <<>>, words |-> 0]

JoinStep ==
  /\ pc = "format" /\ fi < Len(tokens) /\ parenDepth = 0
  /\ JoinVariantAt(tokens, fi).words > 0
  => LET j == JoinVariantAt(tokens, fi)
     IN /\ fi' = fi + j.words
        /\ EndsWithText(out', <<"\n">> \o Repeat(<<" ", " ">>, indent') \o j.phrase)

\* C16: every join variant of the clause set, the three-word phrases LEFT
\* OUTER JOIN, RIGHT OUTER JOIN and FULL OUTER JOIN included, is consumed as
\* a unit at paren depth 0: the whole phrase starts a new line and no line
\* break is written between its words.
C16_JoinPhraseUnit == [][JoinStep]_vars


SetOperatorStep ==
  /\ pc = "format" /\ fi < Len(tokens) /\ parenDepth = 0
  /\ ClauseAt(tokens, fi) \in SetOperators
  => indent' = 0

\* C17: whenever format processes UNION, UNION ALL, INTERSECT or EXCEPT at
\* paren depth 0, indent is 0 immediately afterwards, whatever it was before.
C17_SetOperatorResetsIndent == [][SetOperatorStep]_vars


LongArrow == <<"-", ">", ">">>

ArrowStep ==
  pc = "tokenize" /\ i < Len(sql) /\ StartsAt(sql, LongArrow, i) =>
    /\ tokens' = Append(tokens, Token("operator", LongArrow))
    /\ i' = i + 3

\* C18: operator lexing takes the longest match first: where the scan meets
\* the characters ->> (outside strings, comments and quoted identifiers)
\* tokenize emits one operator token ->>, never -> followed by >, so that a
\* two-character operator is emitted only where no three-character one
\* matches.
C18_LongestOperatorFirst == [][ArrowStep]_vars


IsCastOperator(t) == t.type = "operator" /\ t.value \in CastOperators

\* the text a step of format appends, when the step only appends
Appended(before, after) ==
  IF Len(after) >= Len(before) /\ SubSeq(after, 1, Len(before)) = before
  THEN SubSeq(after, Len(before) + 1, Len(after))
  ELSE <<"\n">>

CastStep ==
  pc = "format" /\ fi < Len(tokens) =>
    /\ IsCastOperator(TokenAt(tokens, fi)) =>
         /\ out' = out \o TokenAt(tokens, fi).value
         /\ out # <<>> => out[Len(out)] \notin Whitespace
    /\ IsCastOperator(prevToken) =>
         /\ Appended(out, out') # <<>>
         /\ Head(Appended(out, out')) \notin Whitespace

\* C19: in the text format builds, a cast/JSON operator ::, -> or ->> has no
\* whitespace immediately before it and none immediately after it: the
\* operand tokens on both sides are written adjacent to the operator.
C19_NoSpaceAroundCast == [][CastStep]_vars


DotStep ==
  pc = "format" /\ fi < Len(tokens) =>
    /\ IsSymbol(TokenAt(tokens, fi), ".") =>
         /\ EndsWith(out', ".")
         /\ Len(out') >= 2 => out'[Len(out') - 1] \notin Whitespace
    /\ IsSymbol(prevToken, ".") =>
         /\ Appended(out, out') # <<>>
         /\ Head(Appended(out, out')) \notin Whitespace

\* C20: in the text format builds, a qualified-name separator . has no
\* space or line break immediately before it and none immediately after
\* it, whatever the kind of the token that follows it (identifier, keyword,
\* *, number).
C20_NoSpaceAroundDot == [][DotStep]_vars


\* the place of the last line break of a text, 0 when it has none
LastLineBreak(text) ==
  LET at == {k \in 1..Len(text) : text[k] = "\n"}
  IN IF at = {} THEN 0 ELSE CHOOSE k \in at : \A h \in at : h <= k

CommentStep ==
  pc = "format" /\ fi < Len(tokens) =>
    /\ TokenAt(tokens, fi).type = "comment" =>
         EndsWithText(out', <<"\n">> \o TokenAt(tokens, fi).value \o <<"\n">>
                              \o Repeat(<<" ", " ">>, indent'))
    /\ prevToken.type = "comment" =>
         /\ Len(out') > LastLineBreak(out)
         /\ SubSeq(out', 1, LastLineBreak(out)) = SubSeq(out, 1, LastLineBreak(out))

\* C21: every comment token is written on a line of its own: a line break
\* precedes the comment text and a line break follows it, and the token
\* written next, whatever its kind, leaves that line break in place, so no
\* text of another token shares the comment's line.
C21_CommentOwnLine == [][CommentStep]_vars


CloseParenStep ==
  pc = "format" /\ fi < Len(tokens) /\ IsSymbol(TokenAt(tokens, fi), ")") =>
    /\ parenDepth' = (IF parenDepth > 0 THEN parenDepth - 1 ELSE 0)
    /\ out' = out \o <<")">>
    /\ prevToken' = TokenAt(tokens, fi)
    /\ lineStart' = FALSE
    /\ indent' = indent

\* C22: processing a ) token changes only parenDepth (one less, not below
\* 0), the output (exactly ) appended), prevToken and lineStart: it never
\* changes indent and never writes a line break, whatever the previous
\* token was.
C22_CloseParenFrame == [][CloseParenStep]_vars

\* the positions of the unguarded keyword tokens kw that begin a statement
LeadingOffenders(toks, kw) ==
  {p \in Unguarded(toks, kw) : p = 1 \/ IsSymbol(toks[p - 1], ";")}

\* C23: analyze produces an UPDATE/DELETE-without-WHERE error finding only
\* for a statement whose leading keyword is UPDATE or DELETE, one per
\* offending statement: an UPDATE or DELETE keyword elsewhere in a statement
\* (SELECT ... FOR UPDATE, ON CONFLICT ... DO UPDATE SET) gives no error.
C23_OnlyLeadingKeyword ==
  pc = "done" =>
    /\ CountOf(findings, "error", UpdateMessage) = Cardinality(LeadingOffenders(tokens, kwUPDATE))
    /\ CountOf(findings, "error", DeleteMessage) = Cardinality(LeadingOffenders(tokens, kwDELETE))
    /\ Len(ErrorFindings(findings)) =
         Cardinality(LeadingOffenders(tokens, kwUPDATE)) + Cardinality(LeadingOffenders(tokens, kwDELETE))

\* a text without string literals, quoted identifiers and block comments
NoQuotingIn(s) ==
  /\ \A k \in 1..Len(s) : s[k] \notin {"'", "\"", "$"}
  /\ ~Includes(s, <<"/", "*">>)

\* a scan step that pushes a token other than a comment consumes no -- :
\* no index of the characters it passes over begins the two characters --
DashesStep ==
  /\ pc = "tokenize"
  /\ i < Len(sql)
  /\ NoQuotingIn(sql)
  /\ Len(tokens') > Len(tokens)
  /\ tokens'[Len(tokens')].type # "comment"
  => \A p \in i..(i' - 1) : ~StartsAt(sql, <<"-", "-">>, p)

\* C24: in input without string literals, quoted identifiers or block
\* comments, every -- outside an earlier line comment starts a comment token
\* that extends to the end of the line, so no character from -- to the end
\* of its line is part of a keyword, identifier, number, operator or symbol
\* token, also when -- directly follows a digit.
C24_DashesStartComment == [][DashesStep]_vars

\* none of the nine documented triggers is in the input
NoDocumentedTrigger(s, toks) ==
  LET upper == ToUpperCase(s)
  IN /\ \A k \in 1..Len(toks) : ~IsSymbol(toks[k], "*")
     /\ Unguarded(toks, kwUPDATE) = {}
     /\ Unguarded(toks, kwDELETE) = {}
     /\ ~Includes(upper, <<"L", "I", "K", "E", " ", "'", "%">>)
     /\ ~Includes(upper, <<"N", "O", "T">>)
     /\ (\E k \in 1..Len(toks) : IsKeyword(toks[k], kwORDER))
          => \E k \in 1..Len(toks) : IsKeyword(toks[k], kwLIMIT) \/ IsKeyword(toks[k], kwFETCH)
     /\ ~Includes(upper, kwOFFSET)
     /\ Cardinality({k \in 1..Len(toks) : IsKeyword(toks[k], kwJOIN)}) < JoinLimit
     /\ ~Includes(upper, <<"N", "O", "W", "(">>)
     /\ ~Includes(upper, kwCOALESCE)

\* the number of :: in the text
Casts(s) == Cardinality({p \in 0..Len(s) : StartsAt(s, <<":", ":">>, p)})

C26_BundleEquivalent ==
  pc = "done" => BundleTokenize(sql) = tokens

\* C27: formatting preserves the token stream: for every input x,
\* tokenize(format(x)) is the same sequence of (type, value) tokens as
\* tokenize(x); the spacing that format chooses never merges two tokens,
\* splits a token or moves a token into a comment.
C27_TokensPreserved ==
  pc = "done" => tokenize(formatted) = tokens

SemicolonStep ==
  pc = "format" /\ fi < Len(tokens) /\ IsSymbol(TokenAt(tokens, fi), ";") =>
    /\ indent' = FormatInit.indent
    /\ parenDepth' = FormatInit.parenDepth
    /\ lineStart' = FormatInit.lineStart

\* C28: after format processes a ; token the formatter state equals its
\* initial state (indent 0, parenDepth 0, line-start true), so that each
\* statement of a multi-statement input is formatted independently of the
\* statements before it, also when an earlier statement holds an
\* unmatched (.
C28_SemicolonResets == [][SemicolonStep]_vars

\* the chains in which a later type holds every value of an earlier one
TypeChains ==
  { <<"smallint", "integer", "bigint", "numeric">>,
    <<"date", "timestamp", "timestamptz">> }

\* a column of type r holds the values detected as t
CanHold(r, t) ==
  \/ r = t
  \/ r = "text"
  \/ \E chain \in TypeChains : \E a, b \in 1..Len(chain) :
       chain[a] = t /\ chain[b] = r /\ a <= b

\* C29: resolveType never narrows: the resolved column type holds every
\* non-null member type: it is the member type itself, a wider type of the
\* chain smallint < integer < bigint < numeric or date < timestamp <
\* timestamptz, or text; a column mixing boolean values with integer or
\* bigint values is not resolved to a type narrower than its widest integer
\* member.
C29_NeverNarrows ==
  pc = "analyzed" =>
    \A k \in 1..Len(types) : types[k] # NullType => CanHold(analysis.pgType, types[k])

\* the names of the columns the CREATE TABLE statement declares, in order
DeclaredNames(ddl) ==
  (IF ddl.id THEN << <<"i", "d">> >> ELSE <<>>)
    \o [k \in 1..Len(ddl.columns) |-> ddl.columns[k].name]

\* C30: the CREATE TABLE statement produced by generateDDL never declares
\* two columns with the same name: distinct headers are mapped by
\* sanitizeName to distinct column names, and the id identity column is
\* added only when addId is not false and no header maps to the name id.
C30_DistinctColumnNames ==
  pc = "generated" =>
    /\ \A a, b \in 1..Len(DeclaredNames(gen.ddl)) :
         a # b => DeclaredNames(gen.ddl)[a] # DeclaredNames(gen.ddl)[b]
    /\ gen.ddl.id =>
         /\ gen.addId
         /\ \A k \in 1..Len(gen.headers) : sanitizeName(gen.headers[k]) # <<"i", "d">>

====
